---- MODULE Spec2Model ----
(***************************************************************************)
(* mdde_lite: the three analyses of one SQL statement                      *)
(*   lineage.py      extract_lineage    column-level lineage               *)
(*   optimizer.py    analyze_sql        15 anti-pattern checks             *)
(*   determinism.py  check_determinism  non-determinism checks             *)
(*                                                                         *)
(* The statement is handed over by sqlglot.parse_one: either an exception  *)
(* (a parse failure with its message) or an expression tree.  A tree node  *)
(* is a record                                                             *)
(*   cls    the sqlglot class of the node (exp.Select, exp.Column, ...)    *)
(*   key    the argument key under which the node hangs in its parent      *)
(*   name   node.name   (column, table, function name, literal text)       *)
(*   table  node.table  (a Column's qualifier, "" when there is none)      *)
(*   alias  node.alias  (of an Alias or a Table, "" when there is none)    *)
(*   flag   a Func's flavor, a Literal's kind, a Join's kind               *)
(*   args   the children, in the order iter_expressions() yields them      *)
(***************************************************************************)
EXTENDS Naturals, Sequences, FiniteSets, TLC

VARIABLES
    stmt,         \* what sqlglot.parse_one(sql_content) gives: failure or tree
    lineage,      \* outcome of the last extract_lineage(sql_content)
    diagnostics,  \* outcome of the last analyze_sql(sql_content)
    issues,       \* outcome of the last check_determinism(sql_content)
    calls,        \* how often the caller has run each analysis
    column_names, \* the argument of suggest_tie_breakers
    suggestions,  \* outcome of the last suggest_tie_breakers(column_names)
    conn,         \* the metadata tables entity, attribute, attribute_mapping
    request,      \* function and arguments of a lineage-graph query
    frames,       \* the pending calls of that query, the innermost last
    answer        \* outcome of the query

vars == <<stmt, lineage, diagnostics, issues, calls, column_names, suggestions,
          conn, request, frames, answer>>

(***************************************************************************)
(* Bounds of the model                                                     *)
(***************************************************************************)
\* longest select-list of the statements whose select-list is enumerated
MaxItems == 2
\* how often the caller runs one analysis on the statement
MaxCalls == 2
\* longest list of column names handed to suggest_tie_breakers
MaxColumns == 3

(***************************************************************************)
(* Expression tree                                                         *)
(***************************************************************************)
Node(cls, name, table, alias, flag, args) ==
    [cls |-> cls, key |-> "this", name |-> name, table |-> table,
     alias |-> alias, flag |-> flag, args |-> args]

\* the node hung under argument key k of its parent
At(k, n) == [n EXCEPT !.key = k]

\* every node of a sequence hung under argument key k
AllAt(k, ns) == [i \in DOMAIN ns |-> At(k, ns[i])]

\* concatenation of a sequence of sequences
RECURSIVE Flatten(_)
Flatten(ss) == IF ss = <<>> THEN <<>> ELSE Head(ss) \o Flatten(Tail(ss))

\* Expression.walk(bfs=True): the nodes under the queued ones, breadth first,
\* each node before its children, the children in argument order
RECURSIVE bfs(_)
bfs(queue) ==
    IF queue = <<>> THEN <<>>
    ELSE <<Head(queue)>> \o bfs(Tail(queue) \o Head(queue).args)

\* Expression.find_all(*classes): the nodes of those classes, root included
find_all(root, classes) ==
    LET Wanted(n) == n.cls \in classes
    IN  SelectSeq(bfs(<<root>>), Wanted)

\* Expression.find(*classes): the first such node, or None
None == [cls |-> "None"]
find(root, classes) ==
    LET found == find_all(root, classes)
    IN  IF found = <<>> THEN None ELSE Head(found)

\* node.args.get(k) for a single-valued argument: the child or None
arg(n, k) ==
    LET Under(c) == c.key = k
        cs == SelectSeq(n.args, Under)
    IN  IF cs = <<>> THEN None ELSE Head(cs)

\* node.expressions / node.args[k] for a list-valued argument
arglist(n, k) ==
    LET Under(c) == c.key = k
    IN  SelectSeq(n.args, Under)

(***************************************************************************)
(* Node constructors (what the parser builds)                              *)
(***************************************************************************)
Column(name, table) == Node("Column", name, table, "", "", <<>>)
Star == Node("Star", "*", "", "", "", <<>>)
Literal(text, kind) == Node("Literal", text, "", "", kind, <<>>)
Null == Node("Null", "", "", "", "", <<>>)
\* a function call: cls is the sqlglot class (Sum, Count, Stddev, Upper,
\* Anonymous, ...), name its canonical upper-case name (sql_name(), or the
\* written name of an Anonymous), flavor the tag of the class (aggregate,
\* window, volatile, plain)
Func(cls, name, flavor, operands) ==
    Node(cls, name, "", "", flavor,
         IF operands = <<>> THEN <<>>
         ELSE <<At("this", Head(operands))>> \o AllAt("expressions", Tail(operands)))
Binary(cls, left, right) ==
    Node(cls, "", "", "", "", <<At("this", left), At("expression", right)>>)
Alias(inner, alias) == Node("Alias", "", "", alias, "", <<At("this", inner)>>)
Table(name, alias) == Node("Table", name, "", alias, "", <<>>)
Subquery(select) == Node("Subquery", "", "", "", "", <<At("this", select)>>)

SelectStmt(modifiers, items, from, rest) ==
    Node("Select", "", "", "", "",
         modifiers \o AllAt("expressions", items) \o from \o rest)
From(table) == <<At("from", Node("From", "", "", "", "", <<At("this", table)>>))>>
Join(table, kind, cond) ==
    At("joins", Node("Join", "", "", "", kind, <<At("this", table)>> \o cond))
With(name, select) ==
    At("with", Node("With", "", "", "", "",
        <<At("expressions", Node("CTE", "", "", name, "", <<At("this", select)>>))>>))
Window(func, partition_by, order_by) ==
    Node("Window", "", "", "", "",
         <<At("this", func)>> \o AllAt("partition_by", partition_by)
         \o (IF order_by = <<>> THEN <<>>
             ELSE <<At("order", Node("Order", "", "", "", "",
                        AllAt("expressions",
                              [i \in DOMAIN order_by |->
                                  Node("Ordered", "", "", "", "",
                                       <<At("this", order_by[i])>>)])))>>))
Union(left, right) ==
    Node("Union", "", "", "", "", <<At("this", left), At("expression", right)>>)
\* EXCEPT: a set operation beside Union, of a class of its own
Except(left, right) ==
    Node("Except", "", "", "", "", <<At("this", left), At("expression", right)>>)
\* VALUES (1): a query without a Select
Values ==
    Node("Values", "", "", "", "",
         <<At("expressions", Node("Tuple", "", "", "", "",
                                  <<At("expressions", Literal("1", "int"))>>))>>)

(***************************************************************************)
(* Text: a string is a sequence of characters.  Chars spells the strings   *)
(* of the statements below; a keyword the generator writes is one atom.    *)
(***************************************************************************)
Chars(s) ==
    CASE s = "id" -> <<"i", "d">>
      [] s = "amount" -> <<"a", "m", "o", "u", "n", "t">>
      [] s = "total" -> <<"t", "o", "t", "a", "l">>
      [] s = "c" -> <<"c">>
      [] s = "x" -> <<"x">>
      [] s = "o" -> <<"o">>
      [] s = "t" -> <<"t">>
      [] s = "orders" -> <<"o", "r", "d", "e", "r", "s">>
      [] s = "customers" -> <<"c", "u", "s", "t", "o", "m", "e", "r", "s">>
      [] s = "payments" -> <<"p", "a", "y", "m", "e", "n", "t", "s">>
      [] s = "recent" -> <<"r", "e", "c", "e", "n", "t">>
      [] s = "inventory" -> <<"i", "n", "v", "e", "n", "t", "o", "r", "y">>
      [] s = "1" -> <<"1">>
      [] s = "2" -> <<"2">>
      [] s = "100" -> <<"1", "0", "0">>
      [] s = "11" -> <<"1", "1">>
      [] s = "2024-01-01" -> <<"2", "0", "2", "4", "-", "0", "1", "-", "0", "1">>
      [] s = "01/31/2024" -> <<"0", "1", "/", "3", "1", "/", "2", "0", "2", "4">>
      [] s = "20240131" -> <<"2", "0", "2", "4", "0", "1", "3", "1">>
      [] s = "%test" -> <<"%", "t", "e", "s", "t">>
      [] s = "test%" -> <<"t", "e", "s", "t", "%">>
      [] s = "widget" -> <<"w", "i", "d", "g", "e", "t">>
      [] s = "name" -> <<"n", "a", "m", "e">>
      [] s = "region" -> <<"r", "e", "g", "i", "o", "n">>
      [] s = "id1" -> <<"i", "d", "1">>
      [] s = "3" -> <<"3">>
      [] s = "products" -> <<"p", "r", "o", "d", "u", "c", "t", "s">>
      [] s = "categories" -> <<"c", "a", "t", "e", "g", "o", "r", "i", "e", "s">>
      [] s = "p" -> <<"p">>
      [] s = "generate_series" -> <<"g", "e", "n", "e", "r", "a", "t", "e", "_", "s", "e", "r", "i", "e", "s">>
      [] s = "CROSS" -> <<"C", "R", "O", "S", "S">>
      [] s = "LEFT" -> <<"L", "E", "F", "T">>
      [] s = "INNER" -> <<"I", "N", "N", "E", "R">>
      [] s = "Upper" -> <<"U", "p", "p", "e", "r">>
      [] s = "Sum" -> <<"S", "u", "m">>
      [] s = "Anonymous" -> <<"A", "n", "o", "n", "y", "m", "o", "u", "s">>
      [] s = "customer_name" -> <<"c", "u", "s", "t", "o", "m", "e", "r", "_", "n", "a", "m", "e">>
      [] s = "order_id" -> <<"o", "r", "d", "e", "r", "_", "i", "d">>
      [] s = "created_at" -> <<"c", "r", "e", "a", "t", "e", "d", "_", "a", "t">>
      [] s = "x_source_row_id" -> <<"x", "_", "s", "o", "u", "r", "c", "e", "_", "r", "o", "w", "_", "i", "d">>
      [] s = "sk" -> <<"s", "k">>
      [] s = "ID" -> <<"I", "D">>
      [] s = "load_ts" -> <<"l", "o", "a", "d", "_", "t", "s">>
      [] s = "task" -> <<"t", "a", "s", "k">>
      [] s = "_source_row_id" -> <<"_", "s", "o", "u", "r", "c", "e", "_", "r", "o", "w", "_", "i", "d">>
      [] s = "_row_id" -> <<"_", "r", "o", "w", "_", "i", "d">>
      [] s = "row_id" -> <<"r", "o", "w", "_", "i", "d">>
      [] s = "_load_timestamp" -> <<"_", "l", "o", "a", "d", "_", "t", "i", "m", "e", "s", "t", "a", "m", "p">>
      [] s = "_load_ts" -> <<"_", "l", "o", "a", "d", "_", "t", "s">>
      [] s = "_file_row_number" -> <<"_", "f", "i", "l", "e", "_", "r", "o", "w", "_", "n", "u", "m", "b", "e", "r">>
      [] s = "surrogate_key" -> <<"s", "u", "r", "r", "o", "g", "a", "t", "e", "_", "k", "e", "y">>
      [] s = "_sk" -> <<"_", "s", "k">>
      [] s = "_id" -> <<"_", "i", "d">>
      [] OTHER -> IF s = "" THEN <<>> ELSE <<s>>

Digits == {"0", "1", "2", "3", "4", "5", "6", "7", "8", "9"}
LowerCase == <<"a", "b", "c", "d", "e", "f", "g", "h", "i", "j", "k", "l", "m", "n", "o", "p", "q", "r", "s", "t", "u", "v", "w", "x", "y", "z">>
UpperCase == <<"A", "B", "C", "D", "E", "F", "G", "H", "I", "J", "K", "L", "M", "N", "O", "P", "Q", "R", "S", "T", "U", "V", "W", "X", "Y", "Z">>

\* str.upper() and str.lower(), character by character
UpperChar(ch) ==
    IF \E i \in DOMAIN LowerCase : LowerCase[i] = ch
    THEN UpperCase[CHOOSE i \in DOMAIN LowerCase : LowerCase[i] = ch] ELSE ch
LowerChar(ch) ==
    IF \E i \in DOMAIN UpperCase : UpperCase[i] = ch
    THEN LowerCase[CHOOSE i \in DOMAIN UpperCase : UpperCase[i] = ch] ELSE ch
upper(text) == [i \in DOMAIN text |-> UpperChar(text[i])]
lower(text) == [i \in DOMAIN text |-> LowerChar(text[i])]

\* "pat in text"
Contains(text, pat) ==
    \E i \in 0..(Len(text) - Len(pat)) :
        \A j \in 1..Len(pat) : text[i + j] = pat[j]

\* ", ".join(parts)
RECURSIVE JoinText(_, _)
JoinText(parts, sep) ==
    IF parts = <<>> THEN <<>>
    ELSE IF Len(parts) = 1 THEN parts[1]
    ELSE parts[1] \o sep \o JoinText(Tail(parts), sep)

\* the flavors of exp.Func subclasses
FuncFlavors == {"aggregate", "plain", "window", "volatile"}
IsFunc(n) == n.flag \in FuncFlavors /\ n.cls \notin {"Literal", "Join"}

BinaryOperators ==
    [Add |-> <<"+">>, EQ |-> <<"=">>, GT |-> <<">">>, And |-> <<"AND">>,
     Or |-> <<"OR">>, Like |-> <<"LIKE">>]

\* Expression.sql(): the text the generator writes for a node
RECURSIVE sql(_)
sql(n) ==
    LET each(ns) == [i \in DOMAIN ns |-> sql(ns[i])]
        list(ns) == JoinText(each(ns), <<",", " ">>)
        opt(k, before) ==
            IF arg(n, k) = None THEN <<>> ELSE before \o sql(arg(n, k))
        as == IF n.alias = "" THEN <<>> ELSE <<" ", "AS", " ">> \o Chars(n.alias)
    IN  CASE n.cls = "Column" ->
                (IF n.table = "" THEN <<>> ELSE Chars(n.table) \o <<".">>)
                \o Chars(n.name)
          [] n.cls = "Star" -> <<"*">>
          [] n.cls = "Null" -> <<"NULL">>
          [] n.cls = "Literal" ->
                IF n.flag = "string" THEN <<"'">> \o Chars(n.name) \o <<"'">>
                ELSE Chars(n.name)
          [] n.cls = "Alias" -> sql(arg(n, "this")) \o as
          [] n.cls = "Table" ->
                (IF arg(n, "this") = None THEN Chars(n.name)
                 ELSE sql(arg(n, "this"))) \o as
          [] n.cls = "Subquery" -> <<"(">> \o sql(arg(n, "this")) \o <<")">> \o as
          [] n.cls \in DOMAIN BinaryOperators ->
                sql(arg(n, "this")) \o <<" ">> \o BinaryOperators[n.cls]
                \o <<" ">> \o sql(arg(n, "expression"))
          [] n.cls = "Window" ->
                sql(arg(n, "this")) \o <<" ", "OVER", " ", "(">>
                \o (IF arglist(n, "partition_by") = <<>> THEN <<>>
                    ELSE <<"PARTITION BY", " ">> \o list(arglist(n, "partition_by")))
                \o (IF arglist(n, "partition_by") # <<>> /\ arg(n, "order") # None
                    THEN <<" ">> ELSE <<>>)
                \o opt("order", <<>>) \o <<")">>
          [] n.cls = "Order" -> <<"ORDER BY", " ">> \o list(arglist(n, "expressions"))
          [] n.cls = "Ordered" -> sql(arg(n, "this"))
          [] n.cls = "Group" -> <<"GROUP BY", " ">> \o list(arglist(n, "expressions"))
          [] n.cls = "Limit" -> <<"LIMIT", " ">> \o sql(arg(n, "expression"))
          [] n.cls = "Where" -> <<"WHERE", " ">> \o sql(arg(n, "this"))
          [] n.cls = "From" -> <<"FROM", " ">> \o sql(arg(n, "this"))
          [] n.cls = "Select" ->
                <<"SELECT", " ">>
                \o (IF arg(n, "distinct") = None THEN <<>> ELSE <<"DISTINCT", " ">>)
                \o list(arglist(n, "expressions"))
                \o opt("from", <<" ">>) \o opt("where", <<" ">>)
                \o opt("group", <<" ">>) \o opt("order", <<" ">>)
                \o opt("limit", <<" ">>)
          [] IsFunc(n) -> Chars(n.name) \o <<"(">> \o list(n.args) \o <<")">>
          [] OTHER -> <<n.cls>>

(***************************************************************************)
(* Calls and exceptions                                                    *)
(***************************************************************************)
\* the outcome of a call: not made yet, a value returned, or an exception
\* that left the function
Idle == [status |-> "idle", value |-> <<>>]
Returned(v) == [status |-> "returned", value |-> v]
Raised(e) == [status |-> "raised", value |-> <<e>>]

\* Python's None where a text is optional
PyNone == <<"None">>

\* str(e) of an exception built from its arguments
str(e) == IF Len(e.args) = 1 THEN e.args[1] ELSE e.args

\* what sqlglot.parse_one raises on a statement it cannot read, both
\* subclasses of Exception
ParserErrors == {"ParseError", "TokenError"}

\* "except Exception as e" around sqlglot.parse_one
MutCaught(e) == e.cls = "ParseError"
Caught(e) == e.cls \in ParserErrors

(***************************************************************************)
(* lineage.py                                                              *)
(***************************************************************************)
\* _build_alias_map: alias -> table name over every Table node, in
\* find_all order; a later assignment to the same key overwrites
RECURSIVE alias_map_over(_, _)
alias_map_over(tables, m) ==
    IF tables = <<>> THEN m
    ELSE LET t == Head(tables)
             k == IF t.alias # "" THEN t.alias ELSE t.name
             rest == [x \in DOMAIN m \ {k} |-> m[x]]
         IN  alias_map_over(Tail(tables), rest @@ (k :> t.name))

_build_alias_map(parsed) == alias_map_over(find_all(parsed, {"Table"}), <<>>)

\* the three-way rule that resolves a column's qualifier
MutResolveTable(table_ref, alias_map) ==
    IF table_ref # "" /\ table_ref \in DOMAIN alias_map THEN alias_map[table_ref]
    ELSE "unknown"
ResolveTable(table_ref, alias_map) ==
    IF table_ref # "" /\ table_ref \in DOMAIN alias_map THEN alias_map[table_ref]
    ELSE IF table_ref # "" THEN table_ref
    ELSE "unknown"

\* the five classes _is_aggregate looks for
aggregate_types == {"Count", "Sum", "Avg", "Min", "Max"}

\* isinstance(expr, aggregate_types) or any(expr.find(agg) ...)
_is_aggregate(expr) ==
    \/ expr.cls \in aggregate_types
    \/ \E agg \in aggregate_types : find(expr, {agg}) # None

\* "target_alias or default": the alias unless it is None or empty
OrElse(target_alias, default) ==
    IF target_alias # "" THEN target_alias ELSE default

\* the loop over inner.find_all(exp.Column) of the aggregation and the
\* derived branch
SourceColumns(inner) ==
    LET cols == find_all(inner, {"Column"})
    IN  [i \in DOMAIN cols |-> cols[i].name]
\* the Mut variant appends a table only for a column that has a qualifier
MutSourceTables(inner, alias_map) ==
    LET Qualified(c) == c.table # ""
        cols == SelectSeq(find_all(inner, {"Column"}), Qualified)
    IN  [i \in DOMAIN cols |-> ResolveTable(cols[i].table, alias_map)]
SourceTables(inner, alias_map) ==
    LET cols == find_all(inner, {"Column"})
    IN  [i \in DOMAIN cols |-> ResolveTable(cols[i].table, alias_map)]

ColumnLineage(target_column, target_alias, source_columns, source_tables, mapping_type, expression) ==
    [target_column |-> target_column, target_alias |-> target_alias,
     source_columns |-> source_columns, source_tables |-> source_tables,
     mapping_type |-> mapping_type, expression |-> expression]


\* the mapping type of the Star branch; the Mut variant is the type the
\* branch would carry if it had one of its own
MutStarType == "star"
StarType == "direct"

\* "if target_alias and target_alias != inner.name"; the Mut variant drops
\* the comparison with the column name
MutRenameTest(target_alias, name) == target_alias # ""
RenameTest(target_alias, name) == target_alias # "" /\ target_alias # name

\* the defaults of "target_alias or ..." in the aggregation, the constant
\* and the derived branch; the Mut variants swap in another default
AggregateDefault == "aggregate"

MutConstantDefault == "expression"
ConstantDefault == "constant"

MutDerivedDefault == "derived"
DerivedDefault == "expression"

_extract_column_lineage(expr, alias_map) ==
    LET target_alias == IF expr.cls = "Alias" THEN expr.alias ELSE ""
        inner == IF expr.cls = "Alias" THEN arg(expr, "this") ELSE expr
    IN  IF inner.cls = "Column" THEN
            ColumnLineage(inner.name, target_alias, <<inner.name>>,
                          <<ResolveTable(inner.table, alias_map)>>,
                          IF RenameTest(target_alias, inner.name)
                          THEN "rename" ELSE "direct",
                          PyNone)
        ELSE IF inner.cls = "Star" THEN
            ColumnLineage("*", target_alias, <<"*">>, <<"all">>, StarType,
                          PyNone)
        ELSE IF _is_aggregate(inner) THEN
            ColumnLineage(OrElse(target_alias, AggregateDefault), target_alias,
                          SourceColumns(inner), SourceTables(inner, alias_map),
                          "aggregation", sql(inner))
        ELSE IF inner.cls = "Literal" THEN
            ColumnLineage(OrElse(target_alias, ConstantDefault), target_alias,
                          <<>>, <<>>, "constant", sql(inner))
        ELSE
            ColumnLineage(OrElse(target_alias, DerivedDefault), target_alias,
                          SourceColumns(inner), SourceTables(inner, alias_map),
                          "derived", sql(inner))

\* "if col_lineage:" -- a dataclass instance without __bool__ or __len__
MutTruthy(col_lineage) == col_lineage.source_columns # <<>>
Truthy(col_lineage) == TRUE

\* the body of extract_lineage after a successful parse
LineageOf(parsed) ==
    LET alias_map == _build_alias_map(parsed)
        select == find(parsed, {"Select"})
        recs == IF select = None THEN <<>>
                ELSE LET es == arglist(select, "expressions")
                     IN  [i \in DOMAIN es |->
                            _extract_column_lineage(es[i], alias_map)]
    IN  SelectSeq(recs, Truthy)

extract_lineage(s) ==
    IF ~s.ok
    THEN IF Caught(s.error) THEN Returned(<<>>) ELSE Raised(s.error.cls)
    ELSE Returned(LineageOf(s.tree))

(***************************************************************************)
(* optimizer.py                                                            *)
(***************************************************************************)
\* a message or suggestion is the sequence of the pieces of its f-string
SQLDiagnostic(diagnostic_type, message, severity, suggestion) ==
    [diagnostic_type |-> diagnostic_type, message |-> message,
     severity |-> severity, suggestion |-> suggestion]

\* one copy of d for every element of ns
ForEach(ns, d) == [i \in DOMAIN ns |-> d]

check_select_star(parsed) ==
    Returned(ForEach(find_all(parsed, {"Star"}),
        SQLDiagnostic("SELECT_STAR",
            <<"SELECT * detected - explicit column list recommended">>, "warning",
            <<"Replace * with explicit column names for better maintainability and performance">>)))

\* table.name[0] of the suggestion raises IndexError on an empty name (the
\* name of a Table whose "this" is a function call, FROM generate_series(..))
check_missing_alias(parsed) ==
    LET tables == find_all(parsed, {"Table"})
        NoAlias(t) == t.alias = ""
        bare == SelectSeq(tables, NoAlias)
    IN  IF Len(tables) > 1
        THEN IF \E i \in DOMAIN bare : bare[i].name = ""
             THEN Raised("IndexError")
             ELSE Returned([i \in DOMAIN bare |->
                    SQLDiagnostic("MISSING_ALIAS",
                        <<"Table '", bare[i].name, "' has no alias in multi-table query">>,
                        "info",
                        <<"Add alias: ", bare[i].name, " AS ",
                          LowerChar(Head(Chars(bare[i].name)))>>)])
        ELSE Returned(<<>>)

check_order_by_number(parsed) ==
    LET orders == find_all(parsed, {"Order"})
        ByNumber(e) == arg(e, "this").cls = "Literal" /\ arg(e, "this").flag = "int"
        hits == Flatten([i \in DOMAIN orders |->
                    SelectSeq(arglist(orders[i], "expressions"), ByNumber)])
    IN  Returned([i \in DOMAIN hits |->
            SQLDiagnostic("ORDER_BY_NUMBER",
                <<"ORDER BY uses column number (", arg(hits[i], "this").name,
                  ") instead of name">>, "warning",
                <<"Use column name for clarity and maintainability">>)])

check_implicit_join(parsed) ==
    LET select == find(parsed, {"Select"})
        from_clause == find(select, {"From"})
        tables == find_all(select, {"Table"})
        joins == find_all(select, {"Join"})
    IN  IF /\ select # None
           /\ from_clause # None
           /\ Len(tables) > 1
           /\ Len(joins) < Len(tables) - 1
           /\ Contains(sql(from_clause), <<",">>)
        THEN Returned(<<SQLDiagnostic("IMPLICIT_JOIN",
                <<"Implicit join (comma-separated FROM) detected">>, "warning",
                <<"Use explicit JOIN syntax for clarity">>)>>)
        ELSE Returned(<<>>)

check_where_one_equals_one(parsed) ==
    LET where == find(parsed, {"Where"})
        where_sql == upper(sql(where))
    IN  IF /\ where # None
           /\ \/ Contains(where_sql, <<"1", "=", "1">>)
              \/ Contains(where_sql, <<"1", " ", "=", " ", "1">>)
        THEN Returned(<<SQLDiagnostic("WHERE_1_EQUALS_1",
                <<"WHERE 1=1 pattern detected">>, "info",
                <<"Remove if not needed for dynamic SQL generation">>)>>)
        ELSE Returned(<<>>)

check_distinct_star(parsed) ==
    LET DistinctStar(select) ==
            /\ arg(select, "distinct") # None
            /\ \E i \in DOMAIN arglist(select, "expressions") :
                    arglist(select, "expressions")[i].cls = "Star"
    IN  Returned(ForEach(SelectSeq(find_all(parsed, {"Select"}), DistinctStar),
            SQLDiagnostic("DISTINCT_STAR", <<"SELECT DISTINCT * detected">>, "warning",
                <<"Use explicit column list with DISTINCT for clarity and performance">>)))

\* the Mut variant looks at the ON clause alone
MutCheckCartesianJoin(parsed) ==
    LET Cartesian(join) ==
            /\ arg(join, "on") = None
            /\ ~Contains(upper(Chars(join.flag)), <<"C", "R", "O", "S", "S">>)
        hits == SelectSeq(find_all(parsed, {"Join"}), Cartesian)
    IN  Returned([i \in DOMAIN hits |->
            SQLDiagnostic("CARTESIAN_JOIN",
                <<"JOIN to '", arg(hits[i], "this").name,
                  "' without ON clause - potential cartesian product">>, "warning",
                <<"Add ON clause or use CROSS JOIN if intentional">>)])

check_cartesian_join(parsed) ==
    LET Cartesian(join) ==
            /\ arg(join, "on") = None
            /\ arglist(join, "using") = <<>>
            /\ ~Contains(upper(Chars(join.flag)), <<"C", "R", "O", "S", "S">>)
        hits == SelectSeq(find_all(parsed, {"Join"}), Cartesian)
    IN  Returned([i \in DOMAIN hits |->
            SQLDiagnostic("CARTESIAN_JOIN",
                <<"JOIN to '", arg(hits[i], "this").name,
                  "' without ON clause - potential cartesian product">>, "warning",
                <<"Add ON clause or use CROSS JOIN if intentional">>)])

\* the loop over select.expressions with its dictionary seen_columns
RECURSIVE MutDuplicateColumns(_, _)
RECURSIVE duplicate_columns(_, _)
\* the Mut variant compares the names as written, without .lower()
MutDuplicateColumns(exprs, seen_columns) ==
    IF exprs = <<>> THEN <<>>
    ELSE LET expr == Head(exprs)
             col_name == IF expr.cls = "Column" THEN Chars(expr.name)
                         ELSE IF expr.cls = "Alias" THEN Chars(expr.alias)
                         ELSE <<>>
         IN  IF col_name = <<>> THEN MutDuplicateColumns(Tail(exprs), seen_columns)
             ELSE IF col_name \in seen_columns
             THEN <<SQLDiagnostic("DUPLICATE_COLUMN",
                        <<"Column '", col_name, "' appears multiple times in SELECT">>,
                        "warning", <<"Remove duplicate or use different alias">>)>>
                  \o MutDuplicateColumns(Tail(exprs), seen_columns)
             ELSE MutDuplicateColumns(Tail(exprs), seen_columns \cup {col_name})

duplicate_columns(exprs, seen_columns) ==
    IF exprs = <<>> THEN <<>>
    ELSE LET expr == Head(exprs)
             col_name == IF expr.cls = "Column" THEN lower(Chars(expr.name))
                         ELSE IF expr.cls = "Alias" THEN lower(Chars(expr.alias))
                         ELSE <<>>
         IN  IF col_name = <<>> THEN duplicate_columns(Tail(exprs), seen_columns)
             ELSE IF col_name \in seen_columns
             THEN <<SQLDiagnostic("DUPLICATE_COLUMN",
                        <<"Column '", col_name, "' appears multiple times in SELECT">>,
                        "warning", <<"Remove duplicate or use different alias">>)>>
                  \o duplicate_columns(Tail(exprs), seen_columns)
             ELSE duplicate_columns(Tail(exprs), seen_columns \cup {col_name})

check_duplicate_column(parsed) ==
    LET selects == find_all(parsed, {"Select"})
    IN  Returned(Flatten([i \in DOMAIN selects |->
            duplicate_columns(arglist(selects[i], "expressions"), {})]))

Max(a, b) == IF a >= b THEN a ELSE b

RECURSIVE count_depth(_, _)
RECURSIVE count_depth_over(_, _, _)
count_depth_over(children, current_depth, max_depth) ==
    IF children = <<>> THEN max_depth
    ELSE LET child == Head(children)
             child_depth == IF child.cls = "Subquery"
                            THEN count_depth(child, current_depth + 1)
                            ELSE count_depth(child, current_depth)
         IN  count_depth_over(Tail(children), current_depth,
                              Max(max_depth, child_depth))
count_depth(node, current_depth) ==
    count_depth_over(node.args, current_depth, current_depth)

NestingLimit == 3

check_nested_subquery(parsed) ==
    LET depth == count_depth(parsed, 0)
    IN  IF depth >= NestingLimit
        THEN Returned(<<SQLDiagnostic("NESTED_SUBQUERY",
                <<"Deeply nested subqueries detected (", ToString(depth), " levels)">>, "info",
                <<"Consider using CTEs for better readability">>)>>)
        ELSE Returned(<<>>)

check_union_column_mismatch(parsed) ==
    LET unions == find_all(parsed, {"Union"})
        Cols(side) == IF find(side, {"Select"}) # None
                      THEN Len(arglist(find(side, {"Select"}), "expressions")) ELSE 0
        left_cols(u) == Cols(arg(u, "this"))
        right_cols(u) == Cols(arg(u, "expression"))
        Mismatch(u) == /\ left_cols(u) # right_cols(u)
                       /\ left_cols(u) > 0
                       /\ right_cols(u) > 0
        hits == SelectSeq(unions, Mismatch)
    IN  Returned([i \in DOMAIN hits |->
            SQLDiagnostic("UNION_COLUMN_MISMATCH",
                <<"UNION has mismatched column counts: ", ToString(left_cols(hits[i])),
                  " vs ", ToString(right_cols(hits[i]))>>, "error",
                <<"Ensure both sides of UNION have same number of columns">>)])

check_leading_wildcard(parsed) ==
    LET Leading(like) ==
            LET pattern == arg(like, "expression")
            IN  /\ pattern.cls = "Literal"
                /\ pattern.flag = "string"
                /\ Chars(pattern.name) # <<>>
                /\ Head(Chars(pattern.name)) = "%"
    IN  Returned(ForEach(SelectSeq(find_all(parsed, {"Like"}), Leading),
            SQLDiagnostic("LEADING_WILDCARD",
                <<"LIKE pattern starts with '%' - cannot use index">>, "info",
                <<"Consider full-text search or restructure query if performance critical">>)))

check_function_in_where(parsed) ==
    LET where == find(parsed, {"Where"})
        funcs == IF where = None THEN <<>>
                 ELSE SelectSeq(bfs(<<where>>), IsFunc)
        OnColumn(func) == \E i \in DOMAIN arglist(func, "expressions") :
                              arglist(func, "expressions")[i].cls = "Column"
        hits == SelectSeq(funcs, OnColumn)
    IN  Returned([i \in DOMAIN hits |->
            SQLDiagnostic("FUNCTION_IN_WHERE",
                <<"Function ", upper(Chars(hits[i].cls)),
                  " on column in WHERE - cannot use index">>, "info",
                <<"Consider computed column or functional index">>)])

check_or_in_join(parsed) ==
    LET joins == find_all(parsed, {"Join"})
        d == SQLDiagnostic("OR_IN_JOIN", <<"OR condition in JOIN ON clause">>,
                "warning", <<"Consider UNION of separate JOINs for better optimization">>)
        OfJoin(join) ==
            LET on_clause == arg(join, "on")
            IN  IF on_clause = None THEN <<>>
                ELSE (IF on_clause.cls = "Or" THEN <<d>> ELSE <<>>)
                     \o (IF find_all(on_clause, {"Or"}) # <<>> THEN <<d>> ELSE <<>>)
    IN  Returned(Flatten([i \in DOMAIN joins |-> OfJoin(joins[i])]))

\* re.compile(r"^\d{4}-\d{2}-\d{2}$|^\d{2}/\d{2}/\d{4}$|^\d{8}$").match(value)
date_pattern(value) ==
    LET D(i) == value[i] \in Digits
    IN  \/ /\ Len(value) = 10
           /\ \A i \in {1, 2, 3, 4, 6, 7, 9, 10} : D(i)
           /\ value[5] = "-" /\ value[8] = "-"
        \/ /\ Len(value) = 10
           /\ \A i \in {1, 2, 4, 5, 7, 8, 9, 10} : D(i)
           /\ value[3] = "/" /\ value[6] = "/"
        \/ /\ Len(value) = 8
           /\ \A i \in 1..8 : D(i)

check_hardcoded_date(parsed) ==
    LET Dated(literal) == literal.flag = "string" /\ date_pattern(Chars(literal.name))
        hits == SelectSeq(find_all(parsed, {"Literal"}), Dated)
    IN  Returned([i \in DOMAIN hits |->
            SQLDiagnostic("HARDCODED_DATE",
                <<"Hardcoded date literal: '", hits[i].name, "'">>, "info",
                <<"Consider using parameters or date functions">>)])

aggregate_funcs == {"Count", "Sum", "Avg", "Min", "Max"}

check_missing_group_by(parsed) ==
    LET HasAgg(e) == \E agg \in aggregate_funcs : find(e, {agg}) # None
        IsAggregate(e) == HasAgg(e)
        IsNonAggregate(e) ==
            /\ ~HasAgg(e)
            /\ \/ e.cls = "Column"
               \/ e.cls = "Alias" /\ arg(e, "this").cls = "Column"
        Mixed(select) ==
            LET es == arglist(select, "expressions")
            IN  /\ \E i \in DOMAIN es : IsAggregate(es[i])
                /\ \E i \in DOMAIN es : IsNonAggregate(es[i])
                /\ arg(select, "group") = None
    IN  Returned(ForEach(SelectSeq(find_all(parsed, {"Select"}), Mixed),
            SQLDiagnostic("MISSING_GROUP_BY",
                <<"Aggregate function mixed with non-aggregated columns without GROUP BY">>,
                "error",
                <<"Add GROUP BY clause or wrap non-aggregates in aggregate functions">>)))

\* get_all_check_types: the codes of the fifteen checks
get_all_check_types ==
    <<"SELECT_STAR", "MISSING_ALIAS", "ORDER_BY_NUMBER", "IMPLICIT_JOIN",
      "WHERE_1_EQUALS_1", "DISTINCT_STAR", "CARTESIAN_JOIN", "DUPLICATE_COLUMN",
      "NESTED_SUBQUERY", "UNION_COLUMN_MISMATCH", "LEADING_WILDCARD",
      "FUNCTION_IN_WHERE", "OR_IN_JOIN", "HARDCODED_DATE", "MISSING_GROUP_BY">>

\* a variant that runs check_missing_alias before check_select_star
MutChecks(parsed) ==
    << check_missing_alias(parsed), check_select_star(parsed),
       check_order_by_number(parsed), check_implicit_join(parsed),
       check_where_one_equals_one(parsed), check_distinct_star(parsed),
       check_cartesian_join(parsed), check_duplicate_column(parsed),
       check_nested_subquery(parsed), check_union_column_mismatch(parsed),
       check_leading_wildcard(parsed), check_function_in_where(parsed),
       check_or_in_join(parsed), check_hardcoded_date(parsed),
       check_missing_group_by(parsed) >>

\* the fifteen checks in the order analyze_sql calls them
Checks(parsed) ==
    << check_select_star(parsed), check_missing_alias(parsed),
       check_order_by_number(parsed), check_implicit_join(parsed),
       check_where_one_equals_one(parsed), check_distinct_star(parsed),
       check_cartesian_join(parsed), check_duplicate_column(parsed),
       check_nested_subquery(parsed), check_union_column_mismatch(parsed),
       check_leading_wildcard(parsed), check_function_in_where(parsed),
       check_or_in_join(parsed), check_hardcoded_date(parsed),
       check_missing_group_by(parsed) >>

\* diagnostics.extend(check(parsed)), one call after the other, outside any
\* try block: the first exception a check raises leaves analyze_sql
RECURSIVE extend_all(_, _)
extend_all(outcomes, diags) ==
    IF outcomes = <<>> THEN Returned(diags)
    ELSE IF Head(outcomes).status = "raised" THEN Head(outcomes)
    ELSE extend_all(Tail(outcomes), diags \o Head(outcomes).value)

analyze_sql(s) ==
    IF ~s.ok
    THEN IF Caught(s.error)
         THEN Returned(<<SQLDiagnostic("PARSE_ERROR", str(s.error), "error", PyNone)>>)
         ELSE Raised(s.error.cls)
    ELSE extend_all(Checks(s.tree), <<>>)

(***************************************************************************)
(* determinism.py                                                          *)
(***************************************************************************)
DeterminismIssue(issue_type, severity, message, location, suggestion, tie_breaker_columns, dq_check_sql) ==
    [issue_type |-> issue_type, severity |-> severity, message |-> message,
     location |-> location, suggestion |-> suggestion,
     tie_breaker_columns |-> tie_breaker_columns, dq_check_sql |-> dq_check_sql]

RANKING_FUNCTIONS == {"ROW_NUMBER", "RANK", "DENSE_RANK", "NTILE"}
NAVIGATION_FUNCTIONS == {"LAG", "LEAD", "FIRST_VALUE", "LAST_VALUE", "NTH_VALUE"}
ALL_ORDERED_WINDOW_FUNCTIONS == RANKING_FUNCTIONS \cup NAVIGATION_FUNCTIONS

VOLATILE_FUNCTIONS ==
    {"RANDOM", "RAND",
     "UUID", "GEN_RANDOM_UUID", "NEWID", "UUID_GENERATE_V4",
     "NOW", "CURRENT_TIMESTAMP", "SYSDATE", "GETDATE", "SYSTIMESTAMP",
     "CURRENT_DATE", "CURRENT_TIME"}

\* name.upper() of the function names the statements below write
NameUpper(name) ==
    CASE name = "newid" -> "NEWID"
      [] name = "sysdate" -> "SYSDATE"
      [] name = "my_udf" -> "MY_UDF"
      [] OTHER -> name

\* _get_function_name: sql_name().upper() of a function class (the class
\* name in snake case for Anonymous), key.upper() of any other node
_get_function_name(func) ==
    IF IsFunc(func)
    THEN IF func.cls = "Anonymous" THEN "ANONYMOUS" ELSE func.name
    ELSE IF func.cls = "IgnoreNulls" THEN "IGNORENULLS" ELSE func.cls

\* the text of a column of an ORDER BY or PARTITION BY: its name, or str(col)
ColumnText(col) == IF col.cls = "Column" THEN Chars(col.name) ELSE sql(col)

_extract_order_columns(order_by) ==
    LET exprs == arglist(order_by, "expressions")
    IN  [i \in DOMAIN exprs |->
            ColumnText(IF exprs[i].cls = "Ordered" THEN arg(exprs[i], "this")
                       ELSE exprs[i])]

_extract_partition_columns(window) ==
    LET partition == arglist(window, "partition_by")
    IN  [i \in DOMAIN partition |-> ColumnText(partition[i])]

_generate_dq_check(func_name, window) ==
    LET partition_cols == _extract_partition_columns(window)
        partition_str == IF partition_cols # <<>>
                         THEN JoinText(partition_cols, <<",", " ">>) ELSE <<"1">>
    IN  <<"-- DQ Check: Detect potential ", func_name, " non-determinism",
          "SELECT ", partition_str, ", COUNT(*) as duplicate_count",
          "FROM your_table", "GROUP BY ", partition_str, "HAVING COUNT(*) > 1">>

_generate_uniqueness_check(func_name, partition_cols, order_cols) ==
    LET all_cols == partition_cols \o order_cols
        cols_str == IF all_cols # <<>>
                    THEN JoinText(all_cols, <<",", " ">>) ELSE <<"*">>
    IN  <<"-- DQ Check: Verify ORDER BY uniqueness for ", func_name,
          "SELECT COUNT(*) as tie_count", "FROM (", "SELECT ", cols_str,
          ", COUNT(*) as cnt", "FROM your_table", "GROUP BY ", cols_str,
          "HAVING COUNT(*) > 1", ") ties">>

\* the issues of one Window node
window_issues(window) ==
    LET func == arg(window, "this")
        func_name == _get_function_name(func)
        order_by == arg(window, "order")
    IN  IF func_name \notin ALL_ORDERED_WINDOW_FUNCTIONS THEN <<>>
        ELSE IF order_by = None THEN
            <<DeterminismIssue(
                IF func_name \in NAVIGATION_FUNCTIONS
                THEN IF func_name \in {"FIRST_VALUE", "LAST_VALUE"}
                     THEN "FIRST_LAST_NO_ORDER" ELSE "LAG_LEAD_NO_ORDER"
                ELSE "WINDOW_NO_ORDER",
                "error",
                <<func_name, "() without ORDER BY - results are non-deterministic">>,
                <<func_name, " window function">>,
                <<"Add ORDER BY clause with unique columns to ", func_name, "()">>,
                <<"primary_key", "created_at", "row_id">>,
                _generate_dq_check(func_name, window))>>
        ELSE IF func_name \in RANKING_FUNCTIONS THEN
            <<DeterminismIssue("WINDOW_NON_UNIQUE_ORDER", "warning",
                <<func_name, "() ORDER BY (",
                  JoinText(_extract_order_columns(order_by), <<",", " ">>),
                  ") may not be unique within partition">>,
                <<func_name, " window function">>,
                <<"Ensure ORDER BY includes a unique column (PK or tie-breaker)">>,
                <<"primary_key", "_source_row_id", "created_at">>,
                _generate_uniqueness_check(func_name,
                    _extract_partition_columns(window),
                    _extract_order_columns(order_by)))>>
        ELSE <<>>

_check_window_functions(parsed) ==
    LET windows == find_all(parsed, {"Window"})
    IN  Flatten([i \in DOMAIN windows |-> window_issues(windows[i])])

\* "for select in parsed.find_all(exp.Select)": the Selects the check
\* visits; the Mut variant visits the statement itself only
MutLimitScope(parsed) == IF parsed.cls = "Select" THEN <<parsed>> ELSE <<>>
LimitScope(parsed) == find_all(parsed, {"Select"})

_check_limit_without_order(parsed) ==
    LET Unordered(select) == arg(select, "limit") # None /\ arg(select, "order") = None
    IN  ForEach(SelectSeq(LimitScope(parsed), Unordered),
            DeterminismIssue("LIMIT_NO_ORDER", "error",
                <<"LIMIT/TOP without ORDER BY - returns arbitrary rows">>,
                <<"SELECT with LIMIT">>,
                <<"Add ORDER BY clause to ensure consistent row selection">>,
                <<"primary_key", "created_at">>, PyNone))

\* seen_functions = set(), made anew by every call
MutNewSeenFunctions ==
    {issues.value[i].location[1] : i \in {j \in DOMAIN issues.value :
        issues.value[j].issue_type = "VOLATILE_FUNCTION"}}
NewSeenFunctions == {}

volatile_issue(func_name) ==
    DeterminismIssue("VOLATILE_FUNCTION",
        IF func_name \in {"RANDOM", "RAND"} THEN "error"
        ELSE IF func_name \in {"UUID", "GEN_RANDOM_UUID", "NEWID", "UUID_GENERATE_V4"}
        THEN "warning" ELSE "info",
        IF func_name \in {"RANDOM", "RAND"}
        THEN <<func_name, "() produces different values each execution">>
        ELSE IF func_name \in {"UUID", "GEN_RANDOM_UUID", "NEWID", "UUID_GENERATE_V4"}
        THEN <<func_name, "() generates new UUIDs each execution">>
        ELSE <<func_name, "() returns current time - varies between runs">>,
        <<func_name, "() function call">>,
        <<"For regression testing, consider parameterizing time-dependent values">>,
        <<>>, PyNone)

\* seen_functions.add(func_name); the Mut variant forgets the name
MutSeenAdd(seen_functions, func_name) == seen_functions
SeenAdd(seen_functions, func_name) == seen_functions \cup {func_name}

\* the loop over parsed.find_all(exp.Func) with its set seen_functions
RECURSIVE volatile_issues(_, _)
volatile_issues(funcs, seen_functions) ==
    IF funcs = <<>> THEN <<>>
    ELSE LET func == Head(funcs)
             func_name == IF func.cls = "Anonymous"
                          THEN IF func.name # "" THEN NameUpper(func.name)
                               ELSE "ANONYMOUS"
                          ELSE _get_function_name(func)
         IN  IF func_name \in VOLATILE_FUNCTIONS /\ func_name \notin seen_functions
             THEN <<volatile_issue(func_name)>>
                  \o volatile_issues(Tail(funcs), SeenAdd(seen_functions, func_name))
             ELSE volatile_issues(Tail(funcs), seen_functions)

_check_volatile_functions(parsed) ==
    volatile_issues(SelectSeq(bfs(<<parsed>>), IsFunc), NewSeenFunctions)

\* TIE_BREAKER_PATTERNS in priority order: ".*text$" is a pattern that any
\* text may precede, "^text$" one that nothing may
TIE_BREAKER_PATTERNS ==
    <<[any |-> TRUE, text |-> "_source_row_id"],
      [any |-> TRUE, text |-> "_row_id"],
      [any |-> FALSE, text |-> "row_id"],
      [any |-> TRUE, text |-> "_load_timestamp"],
      [any |-> TRUE, text |-> "_load_ts"],
      [any |-> FALSE, text |-> "load_ts"],
      [any |-> FALSE, text |-> "created_at"],
      [any |-> TRUE, text |-> "_file_row_number"],
      [any |-> FALSE, text |-> "surrogate_key"],
      [any |-> FALSE, text |-> "sk"],
      [any |-> TRUE, text |-> "_sk"],
      [any |-> FALSE, text |-> "id"],
      [any |-> TRUE, text |-> "_id"]>>

\* re.compile(pattern, re.IGNORECASE).match(col)
Matches(pattern, col) ==
    LET c == lower(Chars(col))
        t == Chars(pattern.text)
    IN  IF pattern.any
        THEN Len(c) >= Len(t) /\ SubSeq(c, Len(c) - Len(t) + 1, Len(c)) = t
        ELSE c = t

\* the inner loop: for col in column_names, for one pattern
\* the Mut variant appends without "col not in suggestions"
RECURSIVE MutSuggestForPattern(_, _, _)
MutSuggestForPattern(pattern, cols, sugg) ==
    IF cols = <<>> THEN sugg
    ELSE MutSuggestForPattern(pattern, Tail(cols),
            IF Matches(pattern, Head(cols)) THEN Append(sugg, Head(cols)) ELSE sugg)

RECURSIVE suggest_for_pattern(_, _, _)
suggest_for_pattern(pattern, cols, sugg) ==
    IF cols = <<>> THEN sugg
    ELSE suggest_for_pattern(pattern, Tail(cols),
            IF Matches(pattern, Head(cols)) /\ \A i \in DOMAIN sugg : sugg[i] # Head(cols)
            THEN Append(sugg, Head(cols)) ELSE sugg)

\* the outer loop: for pattern in TIE_BREAKER_PATTERNS
RECURSIVE suggest_over(_, _, _)
suggest_over(patterns, cols, sugg) ==
    IF patterns = <<>> THEN sugg
    ELSE suggest_over(Tail(patterns), cols,
                      suggest_for_pattern(Head(patterns), cols, sugg))

\* a variant that walks the columns in the outer loop
MutSuggestInInputOrder(cols) ==
    LET MatchesSome(col) == \E i \in DOMAIN TIE_BREAKER_PATTERNS :
                                Matches(TIE_BREAKER_PATTERNS[i], col)
    IN  SelectSeq(cols, MatchesSome)
suggest_tie_breakers(cols) == suggest_over(TIE_BREAKER_PATTERNS, cols, <<>>)

_check_distinct_determinism(parsed) ==
    LET Arbitrary(select) ==
            /\ arg(select, "distinct") # None
            /\ arg(select, "limit") # None
            /\ arg(select, "order") = None
    IN  ForEach(SelectSeq(find_all(parsed, {"Select"}), Arbitrary),
            DeterminismIssue("DISTINCT_NO_ORDER", "warning",
                <<"SELECT DISTINCT with LIMIT but no ORDER BY - arbitrary row selection">>,
                <<"SELECT DISTINCT with LIMIT">>,
                <<"Add ORDER BY to ensure consistent row selection">>,
                <<>>, PyNone))

\* the Mut variant runs the DISTINCT check before the LIMIT check
MutCheckDeterminism(s) ==
    IF ~s.ok
    THEN IF Caught(s.error)
         THEN Returned(<<DeterminismIssue("PARSE_ERROR", "error", str(s.error),
                    <<"SQL">>, <<"Fix syntax error">>, <<>>, PyNone)>>)
         ELSE Raised(s.error.cls)
    ELSE Returned(_check_window_functions(s.tree)
                  \o _check_distinct_determinism(s.tree)
                  \o _check_limit_without_order(s.tree)
                  \o _check_volatile_functions(s.tree))

check_determinism(s) ==
    IF ~s.ok
    THEN IF Caught(s.error)
         THEN Returned(<<DeterminismIssue("PARSE_ERROR", "error", str(s.error),
                    <<"SQL">>, <<"Fix syntax error">>, <<>>, PyNone)>>)
         ELSE Raised(s.error.cls)
    ELSE Returned(_check_window_functions(s.tree)
                  \o _check_limit_without_order(s.tree)
                  \o _check_volatile_functions(s.tree)
                  \o _check_distinct_determinism(s.tree))

(***************************************************************************)
(* Statements handed to the analyses                                       *)
(***************************************************************************)
\* FROM customers AS c JOIN orders: "c" is an alias of the map, "orders" a
\* name mapped to itself, "x" a qualifier the map does not hold
Qualifiers == {"", "c", "x"}
IdColumns == {Column("id", q) : q \in Qualifiers}

SubqueryItem ==
    Subquery(SelectStmt(<<>>, <<Func("Max", "MAX", "aggregate", <<Column("id", "x")>>),
                               Column("amount", "")>>,
                        From(Table("payments", "")), <<>>))

Items ==
    IdColumns
    \cup {Alias(c, a) : c \in IdColumns, a \in {"id", "total"}}
    \cup {Star, Null, Literal("1", "int"), Alias(Literal("1", "int"), "total")}
    \cup {Func("Sum", "SUM", "aggregate", <<Column("id", "c")>>),
          Alias(Func("Sum", "SUM", "aggregate", <<Column("id", "x")>>), "total"),
          Alias(Func("Count", "COUNT", "aggregate", <<Star>>), "total"),
          Func("Stddev", "STDDEV", "aggregate", <<Column("amount", "orders")>>),
          Binary("Add", Func("Sum", "SUM", "aggregate", <<Column("id", "c")>>),
                 Column("amount", "")),
          Alias(Binary("Add", Column("id", "x"), Column("amount", "orders")), "total"),
          Func("Upper", "UPPER", "plain", <<Column("id", "")>>),
          SubqueryItem}

\* the items that select-lists of several items are made of: one of each
\* shape
ListItems ==
    {Column("id", "c"), Alias(Column("id", "x"), "total"), Star,
     Literal("1", "int"),
     Func("Sum", "SUM", "aggregate", <<Column("id", "c")>>),
     Alias(Binary("Add", Column("id", "x"), Column("amount", "orders")), "total"),
     SubqueryItem}

\* the select-lists of at most n items
RECURSIVE ItemLists(_)
ItemLists(n) ==
    IF n = 0 THEN {<<>>}
    ELSE LET shorter == ItemLists(n - 1)
         IN  shorter \cup {Append(l, i) : l \in {s \in shorter : Len(s) = n - 1},
                                          i \in ListItems}

SelectLists == ItemLists(MaxItems) \cup {<<i>> : i \in Items}

FromCustomers == From(Table("customers", "c"))
OnIds == <<At("on", Binary("EQ", Column("id", "c"), Column("id", "orders")))>>
JoinOrders == <<Join(Table("orders", ""), "", OnIds)>>

\* WITH recent AS (SELECT id, amount, 1 FROM orders AS o) ...
WithRecent ==
    <<With("recent", SelectStmt(<<>>, <<Column("id", "o"), Column("amount", "o"),
                                      Literal("1", "int")>>,
                                From(Table("orders", "o")), <<>>))>>

\* FROM generate_series(1, 3): a Table whose "this" is a function call and
\* whose name is therefore empty
TableFunction ==
    Node("Table", "", "", "", "",
         <<At("this", Func("Anonymous", "generate_series", "plain",
                           <<Literal("1", "int"), Literal("3", "int")>>))>>)

\* SELECT items FROM customers AS c JOIN orders ON c.id = orders.id, alone,
\* under a WITH, over a subquery, as the left side of a UNION, and beside a
\* table function
Roots(items) ==
    { SelectStmt(<<>>, items, FromCustomers, JoinOrders),
      SelectStmt(<<>>, items, FromCustomers, JoinOrders \o WithRecent),
      SelectStmt(<<>>, items,
                 From(Subquery(SelectStmt(<<>>, <<Column("id", ""), Star>>,
                                          From(Table("customers", "c")), <<>>))),
                 JoinOrders),
      Union(SelectStmt(<<>>, items, FromCustomers, JoinOrders),
            SelectStmt(<<>>, <<Column("id", "")>>, From(Table("orders", "")), <<>>)),
      SelectStmt(<<>>, items, From(TableFunction), JoinOrders) }

\* a statement without any SELECT (DROP TABLE customers)
NoSelect == Node("Drop", "customers", "", "", "", <<Table("customers", "")>>)

Distinct == <<At("distinct", Node("Distinct", "", "", "", "", <<>>))>>
Limit(n) ==
    <<At("limit", Node("Limit", "", "", "", "", <<At("expression", Literal(n, "int"))>>))>>
Where(cond) == <<At("where", Node("Where", "", "", "", "", <<At("this", cond)>>))>>
OrderBy(cols) ==
    <<At("order", Node("Order", "", "", "", "",
        AllAt("expressions", [i \in DOMAIN cols |->
            Node("Ordered", "", "", "", "", <<At("this", cols[i])>>)])))>>

RowNumber == Func("RowNumber", "ROW_NUMBER", "window", <<>>)
FirstValue == Func("FirstValue", "FIRST_VALUE", "window", <<Column("name", "")>>)
Rand == Func("Rand", "RAND", "volatile", <<>>)
Now == Func("CurrentTimestamp", "CURRENT_TIMESTAMP", "volatile", <<>>)

\* the statements of the demonstrations at the end of optimizer.py and
\* determinism.py
Samples ==
    { \* SELECT DISTINCT * FROM products p JOIN categories ON ... JOIN inventory
      \* WHERE 1=1 AND UPPER(product_name) = 'WIDGET' AND created_date >
      \* '2024-01-01' AND name LIKE '%test%' ORDER BY 1
      SelectStmt(Distinct, <<Star>>, From(Table("products", "p")),
          <<Join(Table("categories", ""), "", OnIds), Join(Table("inventory", ""), "", <<>>)>>
          \o Where(Binary("And",
                Binary("And",
                    Binary("And",
                        Binary("EQ", Literal("1", "int"), Literal("1", "int")),
                        Binary("EQ", Func("Upper", "UPPER", "plain", <<Column("name", "")>>),
                               Literal("widget", "string"))),
                    Binary("GT", Column("id", ""), Literal("2024-01-01", "string"))),
                Binary("Like", Column("name", ""), Literal("%test", "string"))))
          \o OrderBy(<<Literal("1", "int")>>)),
      \* SELECT customer_id, ROW_NUMBER() OVER (PARTITION BY region) AS rn
      SelectStmt(<<>>, <<Column("id", ""),
                        Alias(Window(RowNumber, <<Column("region", "")>>, <<>>), "total")>>,
                 From(Table("customers", "")), <<>>),
      \* ... ROW_NUMBER() OVER (PARTITION BY region ORDER BY created_date) AS rn
      SelectStmt(<<>>, <<Column("id", ""),
                        Alias(Window(RowNumber, <<Column("region", "")>>,
                                     <<Column("id", "")>>), "total")>>,
                 From(Table("customers", "")), <<>>),
      \* SELECT customer_id, FIRST_VALUE(name) OVER (PARTITION BY region) ...
      SelectStmt(<<>>, <<Column("id", ""),
                        Alias(Window(FirstValue, <<Column("region", "")>>, <<>>), "name")>>,
                 From(Table("customers", "")), <<>>),
      \* SELECT * FROM orders LIMIT 100
      SelectStmt(<<>>, <<Star>>, From(Table("orders", "")), Limit("100")),
      \* SELECT DISTINCT id FROM orders LIMIT 100
      SelectStmt(Distinct, <<Column("id", "")>>, From(Table("orders", "")), Limit("100")),
      \* SELECT customer_id, RANDOM() AS random_value, NOW() AS current_time
      SelectStmt(<<>>, <<Column("id", ""), Alias(Rand, "total"), Alias(Now, "name")>>,
                 From(Table("customers", "")), <<>>),
      \* SELECT RANDOM(), RANDOM(), newid() FROM customers
      SelectStmt(<<>>, <<Rand, Rand, Func("Anonymous", "newid", "plain", <<>>)>>,
                 From(Table("customers", "")), <<>>) }

GroupBy(cols) ==
    <<At("group", Node("Group", "", "", "", "", AllAt("expressions", cols)))>>

\* select-items of SELECT region, SUM(amount) FROM orders [GROUP BY region]
\* and its variants: bare and aliased columns, bare and aliased aggregates,
\* an aggregate outside the five of aggregate_funcs, a scalar expression
GroupItems ==
    {Column("region", ""), Alias(Column("region", ""), "name"),
     Func("Sum", "SUM", "aggregate", <<Column("amount", "")>>),
     Alias(Func("Max", "MAX", "aggregate", <<Column("amount", "")>>), "total"),
     Func("Stddev", "STDDEV", "aggregate", <<Column("amount", "")>>),
     Binary("Add", Column("id", ""), Literal("1", "int"))}

GroupLists ==
    {<<i>> : i \in GroupItems} \cup {<<i, j>> : i \in GroupItems, j \in GroupItems}

GroupStatements ==
    {SelectStmt(<<>>, items, From(Table("orders", "")), g) :
        items \in GroupLists, g \in {<<>>, GroupBy(<<Column("region", "")>>)}}

\* SELECT id FROM orders, customers [, payments]: the parser hangs the
\* first table under From and every further one under a Join of its own,
\* without kind and without condition
CommaJoinStatements ==
    {SelectStmt(<<>>, <<Column("id", "")>>, From(Table("orders", "")),
                <<Join(Table("customers", ""), "", <<>>)>>),
     SelectStmt(<<>>, <<Column("id", "")>>, From(Table("orders", "")),
                <<Join(Table("customers", ""), "", <<>>),
                  Join(Table("payments", ""), "", <<>>)>>)}

\* SELECT id FROM orders INNER JOIN customers ON ... [LEFT JOIN payments ON ...]
ExplicitJoinStatements ==
    {SelectStmt(<<>>, <<Column("id", "")>>, From(Table("orders", "")),
                <<Join(Table("customers", ""), "INNER", OnIds)>>),
     SelectStmt(<<>>, <<Column("id", "")>>, From(Table("orders", "")),
                <<Join(Table("customers", ""), "INNER", OnIds),
                  Join(Table("payments", ""), "LEFT", OnIds)>>)}

\* SELECT id [, amount] FROM orders
Side(n) ==
    SelectStmt(<<>>, SubSeq(<<Column("id", ""), Column("amount", ""), Column("name", "")>>, 1, n),
               From(Table("orders", "")), <<>>)

\* the sides of a set operation: Selects of one to three columns and a
\* query without Select
Sides == {Side(n) : n \in 1..3} \cup {Values}

\* a UNION or EXCEPT b, and (a UNION b) UNION c
SetStatements ==
    {Union(a, b) : a \in Sides, b \in Sides}
    \cup {Except(a, b) : a \in Sides, b \in Sides}
    \cup {Union(Union(Side(2), b), c) : b \in {Side(1), Side(2)}, c \in {Side(1), Side(2)}}

\* f IGNORE NULLS OVER (...): the parser wraps the function of the window
IgnoreNulls(func) == Node("IgnoreNulls", "", "", "", "", <<At("this", func)>>)

\* the functions of the windows: those sqlglot has a class for, RANK and
\* NTILE both as a class of their own and as the Anonymous call they are
\* where the parser has no such class, a navigation function under IGNORE
\* NULLS, and an aggregate, which is in neither set
WindowFuncs ==
    {RowNumber, FirstValue,
     Func("Rank", "RANK", "window", <<>>),
     Func("Anonymous", "RANK", "plain", <<>>),
     Func("Anonymous", "NTILE", "plain", <<Literal("3", "int")>>),
     Func("Lag", "LAG", "window", <<Column("amount", "")>>),
     Func("NthValue", "NTH_VALUE", "window", <<Column("amount", ""), Literal("2", "int")>>),
     IgnoreNulls(Func("LastValue", "LAST_VALUE", "window", <<Column("name", "")>>)),
     Func("Sum", "SUM", "aggregate", <<Column("amount", "")>>)}

WindowOrders == {<<>>, <<Column("id", "")>>, <<Column("amount", ""), Column("id", "c")>>}
WindowPartitions == {<<>>, <<Column("region", "")>>}

Windows == {Window(f, p, o) : f \in WindowFuncs, p \in WindowPartitions, o \in WindowOrders}

\* SELECT id, f OVER (...) AS total FROM customers, and a statement of two
\* windows
WindowStatements ==
    {SelectStmt(<<>>, <<Column("id", ""), Alias(w, "total")>>,
                From(Table("customers", "")), <<>>) : w \in Windows}
    \cup {SelectStmt(<<>>, <<Alias(Window(RowNumber, <<>>, o), "total"),
                            Alias(Window(FirstValue, <<>>, o), "name")>>,
                      From(Table("customers", "")), <<>>) : o \in WindowOrders}

\* SELECT id FROM orders [ORDER BY id] [LIMIT 100], and the same over a
\* subquery that has a LIMIT or an ORDER BY of its own
LimitModifiers ==
    {<<>>, Limit("100"), OrderBy(<<Column("id", "")>>),
     OrderBy(<<Column("id", "")>>) \o Limit("100")}

LimitStatements ==
    {SelectStmt(<<>>, <<Column("id", "")>>, From(Table("orders", "")), m) :
        m \in LimitModifiers}
    \cup {SelectStmt(<<>>, <<Column("id", "")>>,
                     From(Subquery(SelectStmt(<<>>, <<Column("id", "")>>,
                                              From(Table("orders", "")), inner))),
                     m) : m \in LimitModifiers, inner \in LimitModifiers}

\* calls of volatile functions of the three families, as a class of the
\* parser and as an Anonymous call, and of functions that are not volatile
VolatileCalls ==
    {Rand, Now,
     Func("Uuid", "UUID", "volatile", <<>>),
     Func("Anonymous", "newid", "plain", <<>>),
     Func("CurrentDate", "CURRENT_DATE", "volatile", <<>>),
     Func("Anonymous", "my_udf", "plain", <<>>),
     Func("Upper", "UPPER", "plain", <<Column("name", "")>>)}

\* SELECT f() [, g()] FROM customers [WHERE UPPER(name) > f()], and a call below
\* another expression
VolatileStatements ==
    {SelectStmt(<<>>, <<f>>, From(Table("customers", "")), <<>>) : f \in VolatileCalls}
    \cup {SelectStmt(<<>>, <<f, Alias(g, "total")>>, From(Table("customers", "")), <<>>) :
             f \in VolatileCalls, g \in VolatileCalls}
    \cup {SelectStmt(<<>>, <<f, Binary("Add", f, Rand)>>, From(Table("customers", "")),
                     Where(Binary("GT", Func("Upper", "UPPER", "plain", <<Column("name", "")>>),
                                  f))) : f \in VolatileCalls}

\* SELECT *, id FROM (SELECT id FROM (SELECT id FROM (SELECT id FROM
\* payments))) JOIN customers ON c.id = orders.id OR c.id = orders.id
\* WHERE COALESCE(name, region) = 'widget' [ORDER BY 1]: a statement on
\* which the later checks have findings too
Nested(select) == From(Subquery(select))
RuleStatements ==
    {SelectStmt(<<>>, <<Star, Column("id", "")>>,
        Nested(SelectStmt(<<>>, <<Column("id", "")>>,
            Nested(SelectStmt(<<>>, <<Column("id", "")>>,
                Nested(SelectStmt(<<>>, <<Column("id", "")>>,
                                  From(Table("payments", "")), <<>>)), <<>>)), <<>>)),
        <<Join(Table("customers", ""), "",
               <<At("on", Binary("Or", Binary("EQ", Column("id", "c"), Column("id", "orders")),
                                 Binary("EQ", Column("id", "c"), Column("id", "orders"))))>>)>>
        \o Where(Binary("EQ", Func("Coalesce", "COALESCE", "plain",
                                   <<Column("name", ""), Column("region", "")>>),
                        Literal("widget", "string")))
        \o o) : o \in {<<>>, OrderBy(<<Literal("1", "int")>>)}}

\* statements that declare one alias, or one name, more than once:
\*   SELECT t.id FROM orders AS t JOIN customers AS t ON ...
\*   SELECT customers.id FROM orders AS customers JOIN customers ON ...
\*   WITH recent AS (SELECT id FROM payments AS t) SELECT t.id FROM orders AS t
\*   SELECT t.id FROM (SELECT id FROM payments AS t) JOIN orders AS t ON ...
\* The parser sets the "with" argument of a Select after all others.
AliasStatements ==
    {SelectStmt(<<>>, <<Column("id", "t")>>, From(Table("orders", "t")),
                <<Join(Table("customers", "t"), "", OnIds)>>),
     SelectStmt(<<>>, <<Column("id", "customers")>>, From(Table("orders", "customers")),
                <<Join(Table("customers", ""), "", OnIds)>>),
     SelectStmt(<<>>, <<Column("id", "t")>>, From(Table("orders", "t")),
                <<With("recent", SelectStmt(<<>>, <<Column("id", "")>>,
                                            From(Table("payments", "t")), <<>>))>>),
     SelectStmt(<<>>, <<Column("id", "t")>>,
                Nested(SelectStmt(<<>>, <<Column("id", "")>>,
                                  From(Table("payments", "t")), <<>>)),
                <<Join(Table("orders", "t"), "", OnIds)>>)}

\* statements that read from the CTE they define:
\*   WITH recent AS (SELECT id FROM orders AS o) SELECT item FROM recent [AS r]
CteStatements ==
    {SelectStmt(<<>>, <<i>>, From(Table("recent", a)),
                <<With("recent", SelectStmt(<<>>, <<Column("id", "o")>>,
                                            From(Table("orders", "o")), <<>>))>>) :
        i \in {Column("id", "recent"), Column("id", "r"), Column("id", ""),
               Func("Sum", "SUM", "aggregate", <<Column("id", "recent")>>),
               Func("Upper", "UPPER", "plain", <<Column("id", "r")>>)},
        a \in {"", "r"}}

\* SELECT id FROM orders JOIN customers ON cond [JOIN payments ON c.id = orders.id]
\* with cond one of  a = b,  a = b OR a = b,  (a = b OR a = b),
\* a = b AND (a = b OR a = b)
OnConditions ==
    LET eq == Binary("EQ", Column("id", "c"), Column("id", "orders"))
        paren == Node("Paren", "", "", "", "", <<At("this", Binary("Or", eq, eq))>>)
    IN  {eq, Binary("Or", eq, eq), paren, Binary("And", eq, paren)}
OrJoinStatements ==
    {SelectStmt(<<>>, <<Column("id", "")>>, From(Table("orders", "")),
                <<Join(Table("customers", ""), "", <<At("on", c)>>)>> \o more) :
        c \in OnConditions,
        more \in {<<>>, <<Join(Table("payments", ""), "LEFT", OnIds)>>}}

\* select-lists of three items whose names repeat, also in another case
\* and under another qualifier:  SELECT c.id, amount AS ID, x.id FROM orders,
\* and equal names in the two sides of a UNION and in a subquery
NamedItems ==
    {Column("id", "c"), Column("id", "x"), Alias(Column("amount", ""), "ID"),
     Alias(Column("amount", ""), "total"), Literal("1", "int")}
DuplicateStatements ==
    {SelectStmt(<<>>, <<a, b, c>>, From(Table("orders", "")), <<>>) :
        a \in NamedItems, b \in NamedItems, c \in NamedItems}
    \cup {Union(SelectStmt(<<>>, <<a, b>>, From(Table("orders", "")), <<>>),
                SelectStmt(<<>>, <<a>>, From(Table("customers", "")), <<>>)) :
             a \in NamedItems, b \in NamedItems}
    \cup {SelectStmt(<<>>, <<a>>, Nested(SelectStmt(<<>>, <<a, b>>,
                                                   From(Table("orders", "")), <<>>)), <<>>) :
             a \in NamedItems, b \in NamedItems}

\* SELECT id FROM orders [kind] JOIN customers [ON c.id = orders.id | USING (id)]
\* alone or followed by CROSS JOIN payments or LEFT JOIN payments
UsingId == <<At("using", Node("Identifier", "id", "", "", "", <<>>))>>
JoinKindStatements ==
    {SelectStmt(<<>>, <<Column("id", "")>>, From(Table("orders", "")),
                <<Join(Table("customers", ""), kind, cond)>> \o more) :
        kind \in {"", "CROSS", "LEFT", "INNER"},
        cond \in {<<>>, OnIds, UsingId},
        more \in {<<>>, <<Join(Table("payments", ""), "CROSS", <<>>)>>,
                  <<Join(Table("payments", ""), "LEFT", <<>>)>>}}

\* SELECT [DISTINCT] items FROM orders | (SELECT DISTINCT id FROM orders LIMIT 100)
\* [ORDER BY id] [LIMIT 100], the items a column, an unordered ROW_NUMBER
\* window and RAND(), or a column alone
DistinctStatements ==
    {SelectStmt(d, items, from, m) :
        d \in {<<>>, Distinct},
        items \in {<<Column("id", "")>>,
                   <<Column("id", ""), Window(RowNumber, <<>>, <<>>), Rand>>},
        from \in {From(Table("orders", "")),
                  Nested(SelectStmt(Distinct, <<Column("id", "")>>,
                                    From(Table("orders", "")), Limit("100")))},
        m \in LimitModifiers}

ParserMessages == {"Expecting )", "Invalid expression / Unexpected token"}

\* the two ways sqlglot.parse_one(sql_content) ends
Parsed(tree) == [ok |-> TRUE, error |-> None, tree |-> tree]
Failed(cls, msg) == [ok |-> FALSE, error |-> [cls |-> cls, args |-> <<msg>>], tree |-> None]

Statements ==
    {Failed(e, m) : e \in ParserErrors, m \in ParserMessages}
    \cup {Parsed(NoSelect)}
    \cup {Parsed(t) : t \in Samples}
    \cup {Parsed(t) : t \in GroupStatements}
    \cup {Parsed(t) : t \in AliasStatements}
    \cup {Parsed(t) : t \in DistinctStatements}
    \cup {Parsed(t) : t \in JoinKindStatements}
    \cup {Parsed(t) : t \in DuplicateStatements}
    \cup {Parsed(t) : t \in OrJoinStatements}
    \cup {Parsed(t) : t \in CteStatements}
    \cup {Parsed(t) : t \in RuleStatements}
    \cup {Parsed(t) : t \in VolatileStatements}
    \cup {Parsed(t) : t \in LimitStatements}
    \cup {Parsed(t) : t \in WindowStatements}
    \cup {Parsed(t) : t \in SetStatements}
    \cup {Parsed(t) : t \in CommaJoinStatements \cup ExplicitJoinStatements}
    \cup {Parsed(t) : t \in UNION {Roots(items) : items \in SelectLists}}

(***************************************************************************)
(* The state machine: the caller runs the analyses on the statement        *)
(***************************************************************************)
\* no metadata tables, no lineage-graph query
NoTables == [entity |-> <<>>, attribute |-> <<>>, attribute_mapping |-> {}]
NoRequest == [fn |-> "", entity_id |-> "", attribute_name |-> "", depth |-> 0]

Init ==
    /\ stmt \in Statements
    /\ lineage = Idle
    /\ diagnostics = Idle
    /\ issues = Idle
    /\ calls = [extract_lineage |-> 0, analyze_sql |-> 0, check_determinism |-> 0,
                suggest_tie_breakers |-> 0]
    /\ column_names = <<>>
    /\ suggestions = Idle
    /\ conn = NoTables
    /\ request = NoRequest
    /\ frames = <<>>
    /\ answer = Idle

ExtractLineage ==
    /\ calls.extract_lineage < MaxCalls
    /\ lineage' = extract_lineage(stmt)
    /\ calls' = [calls EXCEPT !.extract_lineage = @ + 1]
    /\ UNCHANGED <<stmt, diagnostics, issues, column_names, suggestions,
                 conn, request, frames, answer>>

\* analyze_sql with a rule that empties the tree it is handed
MutAnalyzeSql ==
    /\ calls.analyze_sql < MaxCalls
    /\ diagnostics' = analyze_sql(stmt)
    /\ calls' = [calls EXCEPT !.analyze_sql = @ + 1]
    /\ stmt' = IF stmt.ok THEN Parsed([stmt.tree EXCEPT !.args = <<>>]) ELSE stmt
    /\ UNCHANGED <<lineage, issues, column_names, suggestions,
                 conn, request, frames, answer>>

AnalyzeSql ==
    /\ calls.analyze_sql < MaxCalls
    /\ diagnostics' = analyze_sql(stmt)
    /\ calls' = [calls EXCEPT !.analyze_sql = @ + 1]
    /\ UNCHANGED <<stmt, lineage, issues, column_names, suggestions,
                 conn, request, frames, answer>>

CheckDeterminism ==
    /\ calls.check_determinism < MaxCalls
    /\ issues' = check_determinism(stmt)
    /\ calls' = [calls EXCEPT !.check_determinism = @ + 1]
    /\ UNCHANGED <<stmt, lineage, diagnostics, column_names, suggestions,
                 conn, request, frames, answer>>

Next == ExtractLineage \/ AnalyzeSql \/ CheckDeterminism

Spec == Init /\ [][Next]_vars

(***************************************************************************)
(* The caller asks for tie-breakers among a list of column names           *)
(***************************************************************************)
\* column names: some that match one pattern, one that matches several, one
\* in upper case, and two that match none
ColumnNames ==
    {"customer_name", "order_id", "created_at", "x_source_row_id", "sk", "ID",
     "load_ts", "task"}

RECURSIVE ColumnLists(_)
ColumnLists(n) ==
    IF n = 0 THEN {<<>>}
    ELSE LET shorter == ColumnLists(n - 1)
         IN  shorter \cup {Append(l, c) : l \in {x \in shorter : Len(x) = n - 1},
                                          c \in ColumnNames}

TieInit ==
    /\ stmt = Parsed(NoSelect)
    /\ lineage = Idle
    /\ diagnostics = Idle
    /\ issues = Idle
    /\ calls = [extract_lineage |-> 0, analyze_sql |-> 0, check_determinism |-> 0,
                suggest_tie_breakers |-> 0]
    /\ column_names \in ColumnLists(MaxColumns)
    /\ suggestions = Idle
    /\ conn = NoTables
    /\ request = NoRequest
    /\ frames = <<>>
    /\ answer = Idle

SuggestTieBreakers ==
    /\ calls.suggest_tie_breakers < MaxCalls
    /\ suggestions' = Returned(suggest_tie_breakers(column_names))
    /\ calls' = [calls EXCEPT !.suggest_tie_breakers = @ + 1]
    /\ UNCHANGED <<stmt, lineage, diagnostics, issues, column_names,
                 conn, request, frames, answer>>

TieNext == SuggestTieBreakers

TieSpec == TieInit /\ [][TieNext]_vars

(***************************************************************************)
(* Lineage-graph queries over the metadata tables (lineage.py)             *)
(***************************************************************************)
\* deepest traversal the caller asks for
MaxDepth == 2

\* SQL NULL and Python None of a text value; a key a dict does not have
NULL == "NULL"
Absent == "absent"

\* f"attr_{entity_id}_{attribute_name}"
attr_id(entity_id, attribute_name) ==
    CASE entity_id = "ent_orders" /\ attribute_name = "id" -> "attr_ent_orders_id"
      [] entity_id = "ent_orders" /\ attribute_name = "total" -> "attr_ent_orders_total"
      [] entity_id = "ent_report" /\ attribute_name = "id" -> "attr_ent_report_id"
      [] entity_id = "ent_report" /\ attribute_name = "total" -> "attr_ent_report_total"

\* the rows of entity (entity_id -> name) and attribute (attribute_id -> name)
Entities == ("ent_orders" :> "orders") @@ ("ent_report" :> "report")
Attributes == ("attr_ent_orders_id" :> "id")

\* the rows attribute_mapping is filled from: report.id from orders.id,
\* orders.id from report.id (a cycle), orders.id from itself (a
\* self-mapping), report.id from a constant (no source entity)
MappingRow(mapping_id, target_entity_id, target_attribute_id, source_entity_id, source_attribute_id, mapping_type, transformation) ==
    [mapping_id |-> mapping_id, target_entity_id |-> target_entity_id,
     target_attribute_id |-> target_attribute_id,
     source_entity_id |-> source_entity_id,
     source_attribute_id |-> source_attribute_id,
     mapping_type |-> mapping_type, transformation |-> transformation]
MappingRows ==
    {MappingRow("map_1", "ent_report", "attr_ent_report_id",
                "ent_orders", "attr_ent_orders_id", "direct", NULL),
     MappingRow("map_2", "ent_orders", "attr_ent_orders_id",
                "ent_report", "attr_ent_report_id", "rename", NULL),
     MappingRow("map_3", "ent_orders", "attr_ent_orders_id",
                "ent_orders", "attr_ent_orders_id", "derived", "id + 1"),
     MappingRow("map_4", "ent_report", "attr_ent_report_id",
                NULL, NULL, "constant", "1")}

\* the column a LEFT JOIN adds: the name of the row with that key, or NULL
LeftJoin(table, key) == IF key \in DOMAIN table THEN table[key] ELSE NULL

\* SELECT name FROM entity WHERE entity_id = ?  ... fetchone()
entity_name(entity_id) == LeftJoin(conn.entity, entity_id)

\* the two queries of get_upstream_lineage: the rows fetchall() returns,
\* each with the mapping it comes from; their order is the database's
upstream_mappings(entity_id, attribute_name) ==
    IF attribute_name # NULL
    THEN {[mapping_id |-> am.mapping_id,
           row |-> <<am.source_entity_id, am.source_attribute_id, am.mapping_type,
                     am.transformation, LeftJoin(conn.entity, am.source_entity_id),
                     LeftJoin(conn.attribute, am.source_attribute_id)>>] :
            am \in {m \in conn.attribute_mapping :
                       /\ m.target_entity_id = entity_id
                       /\ m.target_attribute_id = attr_id(entity_id, attribute_name)}}
    ELSE {[mapping_id |-> am.mapping_id,
           row |-> <<am.source_entity_id, am.source_attribute_id, am.mapping_type,
                     am.transformation, LeftJoin(conn.entity, am.source_entity_id),
                     LeftJoin(conn.attribute, am.source_attribute_id),
                     LeftJoin(conn.attribute, am.target_attribute_id)>>] :
            am \in {m \in conn.attribute_mapping : m.target_entity_id = entity_id}}

\* the two queries of get_downstream_lineage; the second is SELECT DISTINCT
downstream_mappings(entity_id, attribute_name) ==
    IF attribute_name # NULL
    THEN {[mapping_id |-> am.mapping_id,
           row |-> <<am.target_entity_id, am.target_attribute_id, am.mapping_type,
                     LeftJoin(conn.entity, am.target_entity_id),
                     LeftJoin(conn.attribute, am.target_attribute_id)>>] :
            am \in {m \in conn.attribute_mapping :
                       /\ m.source_entity_id = entity_id
                       /\ m.source_attribute_id = attr_id(entity_id, attribute_name)}}
    ELSE {[mapping_id |-> "",
           row |-> <<am.target_entity_id, LeftJoin(conn.entity, am.target_entity_id)>>] :
            am \in {m \in conn.attribute_mapping : m.source_entity_id = entity_id}}

\* a call of either function up to its loop: the result dict, the entity
\* name and the fetched mappings
Call(fn, entity_id, attribute_name, depth) ==
    [fn |-> fn, depth |-> depth,
     mappings |-> IF fn = "get_upstream_lineage"
                  THEN upstream_mappings(entity_id, attribute_name)
                  ELSE downstream_mappings(entity_id, attribute_name),
     result |-> IF fn = "get_upstream_lineage"
                THEN [entity_id |-> entity_id,
                      entity_name |-> IF entity_name(entity_id) = NULL THEN Absent
                                      ELSE entity_name(entity_id),
                      attributes |-> <<>>, sources |-> <<>>]
                ELSE [entity_id |-> entity_id,
                      entity_name |-> IF entity_name(entity_id) = NULL THEN Absent
                                      ELSE entity_name(entity_id),
                      dependents |-> <<>>],
     seen |-> {}, dependent |-> None]

\* the source_entry and the dependent built from a fetched row (mapping[i]
\* is row[i + 1]); upstream / downstream None: the key is not set
source_entry(mapping) ==
    [source_entity_id |-> mapping[1], source_entity_name |-> mapping[5],
     source_attribute |-> mapping[6], mapping_type |-> mapping[3],
     transformation |-> mapping[4],
     target_attribute |-> IF Len(mapping) > 6 THEN mapping[7] ELSE Absent,
     upstream |-> None]
dependent_entry(mapping) ==
    [target_entity_id |-> mapping[1],
     target_entity_name |-> IF Len(mapping) > 1 THEN mapping[2] ELSE NULL,
     target_attribute |-> IF Len(mapping) > 2 THEN mapping[5] ELSE Absent,
     mapping_type |-> IF Len(mapping) > 2 THEN mapping[3] ELSE Absent,
     downstream |-> None]

\* the depth a recursive call is given; the Mut variant passes it on as is
MutNextDepth(depth) == depth
NextDepth(depth) == depth - 1

GraphInit ==
    /\ stmt = Parsed(NoSelect)
    /\ lineage = Idle
    /\ diagnostics = Idle
    /\ issues = Idle
    /\ calls = [extract_lineage |-> 0, analyze_sql |-> 0, check_determinism |-> 0,
                suggest_tie_breakers |-> 0]
    /\ column_names = <<>>
    /\ suggestions = Idle
    /\ conn \in {[entity |-> Entities, attribute |-> Attributes, attribute_mapping |-> rows] :
                    rows \in SUBSET MappingRows}
    /\ request \in [fn : {"get_upstream_lineage", "get_downstream_lineage"},
                    entity_id : DOMAIN Entities,
                    attribute_name : {NULL, "id", "total"},
                    depth : 0..MaxDepth]
    /\ frames = <<>>
    /\ answer = Idle

\* the caller's call of get_upstream_lineage / get_downstream_lineage
GetUpstreamLineage ==
    /\ request.fn = "get_upstream_lineage"
    /\ frames = <<>> /\ answer = Idle
    /\ frames' = <<Call(request.fn, request.entity_id, request.attribute_name, request.depth)>>
    /\ UNCHANGED <<stmt, lineage, diagnostics, issues, calls, column_names, suggestions,
                   conn, request, answer>>

GetDownstreamLineage ==
    /\ request.fn = "get_downstream_lineage"
    /\ frames = <<>> /\ answer = Idle
    /\ frames' = <<Call(request.fn, request.entity_id, request.attribute_name, request.depth)>>
    /\ UNCHANGED <<stmt, lineage, diagnostics, issues, calls, column_names, suggestions,
                   conn, request, answer>>

\* one round of "for mapping in mappings" of get_upstream_lineage, up to
\* the recursive call
UpstreamLoop ==
    /\ frames # <<>>
    /\ frames[Len(frames)].fn = "get_upstream_lineage"
    /\ \E mapping \in frames[Len(frames)].mappings :
          LET top == frames[Len(frames)]
              callers == SubSeq(frames, 1, Len(frames) - 1)
              appended == [top EXCEPT !.mappings = @ \ {mapping},
                                      !.result.sources = Append(@, source_entry(mapping.row))]
          IN  frames' = IF top.depth > 1 /\ mapping.row[1] # NULL
                        THEN callers \o <<appended,
                                          Call("get_upstream_lineage", mapping.row[1], NULL,
                                               NextDepth(top.depth))>>
                        ELSE callers \o <<appended>>
    /\ UNCHANGED <<stmt, lineage, diagnostics, issues, calls, column_names, suggestions,
                   conn, request, answer>>

\* one round of "for mapping in mappings" of get_downstream_lineage, up to
\* the recursive call
DownstreamLoop ==
    /\ frames # <<>>
    /\ frames[Len(frames)].fn = "get_downstream_lineage"
    /\ \E mapping \in frames[Len(frames)].mappings :
          LET top == frames[Len(frames)]
              callers == SubSeq(frames, 1, Len(frames) - 1)
              target_id == mapping.row[1]
              fetched == [top EXCEPT !.mappings = @ \ {mapping}]
              marked == [fetched EXCEPT !.seen = @ \cup {target_id}]
              dependent == dependent_entry(mapping.row)
          IN  frames' = IF target_id # NULL /\ target_id \notin top.seen
                        THEN IF top.depth > 1
                             THEN callers \o <<[marked EXCEPT !.dependent = dependent],
                                               Call("get_downstream_lineage", target_id, NULL,
                                                    NextDepth(top.depth))>>
                             ELSE callers \o <<[marked EXCEPT !.result.dependents =
                                                                  Append(@, dependent)]>>
                        ELSE callers \o <<fetched>>
    /\ UNCHANGED <<stmt, lineage, diagnostics, issues, calls, column_names, suggestions,
                   conn, request, answer>>

\* "return result": to the caller of the query, or into the round of the
\* loop that made the recursive call
Return ==
    /\ frames # <<>>
    /\ frames[Len(frames)].mappings = {}
    /\ LET top == frames[Len(frames)]
       IN  IF Len(frames) = 1
           THEN frames' = <<>> /\ answer' = Returned(top.result)
           ELSE LET caller == frames[Len(frames) - 1]
                    last == Len(caller.result.sources)
                    dependent == IF top.result.dependents # <<>>
                                 THEN [caller.dependent EXCEPT !.downstream = top.result]
                                 ELSE caller.dependent
                    resumed ==
                        IF top.fn = "get_upstream_lineage"
                        THEN IF top.result.sources # <<>>
                             THEN [caller EXCEPT !.result.sources[last].upstream = top.result]
                             ELSE caller
                        ELSE [caller EXCEPT !.result.dependents = Append(@, dependent),
                                            !.dependent = None]
                IN  /\ frames' = SubSeq(frames, 1, Len(frames) - 2) \o <<resumed>>
                    /\ answer' = answer
    /\ UNCHANGED <<stmt, lineage, diagnostics, issues, calls, column_names, suggestions,
                   conn, request>>

GraphNext ==
    GetUpstreamLineage \/ GetDownstreamLineage \/ UpstreamLoop \/ DownstreamLoop \/ Return

\* a call that has started runs on until it returns: the functions are
\* synchronous and nothing suspends them
GraphSpec == GraphInit /\ [][GraphNext]_vars /\ WF_vars(GraphNext)

(***************************************************************************)
(* Properties                                                              *)
(***************************************************************************)
\* the outermost SELECT of a statement: the Select nearest to the root, the
\* leftmost one of several at the same depth
RECURSIVE OutermostAmong(_)
OutermostAmong(level) ==
    LET IsSelect(n) == n.cls = "Select"
    IN  IF level = <<>> THEN None
        ELSE IF SelectSeq(level, IsSelect) # <<>> THEN Head(SelectSeq(level, IsSelect))
        ELSE OutermostAmong(Flatten([i \in DOMAIN level |-> level[i].args]))

OutermostSelect(tree) == OutermostAmong(<<tree>>)

SelectItems(tree) ==
    IF OutermostSelect(tree) = None THEN <<>>
    ELSE arglist(OutermostSelect(tree), "expressions")

ItemAlias(item) == IF item.cls = "Alias" THEN item.alias ELSE ""
ItemInner(item) == IF item.cls = "Alias" THEN item.args[1] ELSE item

\* every node below n (n included), depth first
RECURSIVE Subtree(_)
Subtree(n) == <<n>> \o Flatten([i \in DOMAIN n.args |-> Subtree(n.args[i])])

ColumnsBelow(n) ==
    LET IsColumn(m) == m.cls = "Column"
    IN  SelectSeq(Subtree(n), IsColumn)

\* how often the pair <<table, column>> occurs among the source references
Occurrences(tables, columns, pair) ==
    Cardinality({i \in DOMAIN columns : <<tables[i], columns[i]>> = pair})

\* the table the three-way rule gives a column under the statement's aliases
Resolved(col, tree) ==
    LET m == _build_alias_map(tree)
    IN  IF col.table # "" /\ col.table \in DOMAIN m THEN m[col.table]
        ELSE IF col.table # "" THEN col.table
        ELSE "unknown"

\* the source references are exactly the columns below inner, each resolved
SourcesAreColumnsBelow(rec, inner, tree) ==
    LET cols == ColumnsBelow(inner)
    IN  /\ Len(rec.source_columns) = Len(cols)
        /\ Len(rec.source_tables) = Len(cols)
        /\ \A i \in DOMAIN cols :
              LET pair == <<Resolved(cols[i], tree), cols[i].name>>
              IN  Occurrences(rec.source_tables, rec.source_columns, pair)
                  = Cardinality({j \in DOMAIN cols :
                        <<Resolved(cols[j], tree), cols[j].name>> = pair})

\* extract_lineage has run on a statement that parsed and returned a record
\* for each select-item
LineageDone ==
    /\ stmt.ok
    /\ lineage.status = "returned"
    /\ Len(lineage.value) = Len(SelectItems(stmt.tree))

\* "target_alias or target_column", the target a record stands for
Target(rec) == IF rec.target_alias # "" THEN rec.target_alias ELSE rec.target_column

HasClass(tree, cls) == \E i \in DOMAIN Subtree(tree) : Subtree(tree)[i].cls = cls
HasFlag(tree, flag) == \E i \in DOMAIN Subtree(tree) : Subtree(tree)[i].flag = flag

\* C1: for every statement that parses, extract_lineage returns one record
\* per select-item of the outermost SELECT, in select-list order (the i-th
\* record carries the alias and the text of the i-th item), and none for the
\* select-items of CTEs and subqueries.
C1_OneRecordPerSelectItem ==
    (stmt.ok /\ lineage # Idle) =>
        /\ lineage.status = "returned"
        /\ Len(lineage.value) = Len(SelectItems(stmt.tree))
        /\ \A i \in DOMAIN lineage.value :
              LET item == SelectItems(stmt.tree)[i]
                  rec == lineage.value[i]
              IN  /\ rec.target_alias = ItemAlias(item)
                  /\ rec.expression # PyNone => rec.expression = sql(ItemInner(item))
                  /\ rec.expression = PyNone =>
                        /\ ItemInner(item).cls \in {"Column", "Star"}
                        /\ rec.target_column = ItemInner(item).name

\* a select-list of two items, a literal among them, in a statement that
\* also has a CTE and a subquery with select-lists of their own
C1_Witness ==
    /\ LineageDone
    /\ Len(lineage.value) = 2
    /\ HasClass(stmt.tree, "CTE")
    /\ HasClass(stmt.tree, "Subquery")
    /\ \E i \in DOMAIN lineage.value : lineage.value[i].mapping_type = "constant"

\* the closed set of mapping types
MappingTypes == {"direct", "rename", "aggregation", "constant", "derived", "star"}

\* an item that is no Star, no bare Column, no Literal and holds no
\* aggregate function
IsOther(item) ==
    /\ ItemInner(item).cls \notin {"Star", "Column", "Literal"}
    /\ \A i \in DOMAIN Subtree(ItemInner(item)) :
          Subtree(ItemInner(item))[i].flag # "aggregate"

\* C2: classification is total and closed: every select-item gets a record
\* whose mapping type is one of the six, and an item that is no Star, no bare
\* Column, no aggregate-containing expression and no Literal gets "derived",
\* target = alias or "expression", sources = every Column of its subtree.
C2_ClassificationTotal ==
    (stmt.ok /\ lineage # Idle) =>
        /\ lineage.status = "returned"
        /\ Len(lineage.value) = Len(SelectItems(stmt.tree))
        /\ \A i \in DOMAIN lineage.value :
              LET item == SelectItems(stmt.tree)[i]
                  rec == lineage.value[i]
              IN  /\ rec.mapping_type \in MappingTypes
                  /\ IsOther(item) =>
                        /\ rec.mapping_type = "derived"
                        /\ rec.target_column =
                              (IF ItemAlias(item) # "" THEN ItemAlias(item)
                               ELSE "expression")
                        /\ SourcesAreColumnsBelow(rec, ItemInner(item), stmt.tree)

\* an unaliased scalar function call over a column has been classified
C2_Witness ==
    /\ LineageDone
    /\ \E i \in DOMAIN lineage.value :
          /\ IsOther(SelectItems(stmt.tree)[i])
          /\ ItemAlias(SelectItems(stmt.tree)[i]) = ""
          /\ lineage.value[i].source_columns # <<>>

\* the record of a Star item, but for its mapping type
StarRecord(rec) ==
    /\ rec.target_column = "*"
    /\ rec.source_columns = <<"*">>
    /\ rec.source_tables = <<"all">>

\* C3 as claimed: a Star item is classified STAR, target_column "*", one
\* source reference (table "all", column "*").
C3_StarClassifiedStar ==
    LineageDone =>
        \A i \in DOMAIN lineage.value :
            SelectItems(stmt.tree)[i].cls = "Star" =>
                /\ lineage.value[i].mapping_type = "star"
                /\ StarRecord(lineage.value[i])

\* C3 as the code has it: a Star item is classified "direct", target_column
\* "*", one source reference (table "all", column "*").
C3_StarClassifiedDirect ==
    LineageDone =>
        \A i \in DOMAIN lineage.value :
            SelectItems(stmt.tree)[i].cls = "Star" =>
                /\ lineage.value[i].mapping_type = "direct"
                /\ StarRecord(lineage.value[i])

C3_Witness ==
    /\ LineageDone
    /\ \E i \in DOMAIN lineage.value : SelectItems(stmt.tree)[i].cls = "Star"

\* C4: a bare Column item is "direct" when it has no alias or its alias
\* equals the column name, "rename" otherwise; its target is the alias if
\* there is one, else the column name.
C4_ColumnDirectOrRename ==
    LineageDone =>
        \A i \in DOMAIN lineage.value :
            LET item == SelectItems(stmt.tree)[i]
                rec == lineage.value[i]
            IN  ItemInner(item).cls = "Column" =>
                    /\ rec.mapping_type =
                          (IF ItemAlias(item) = "" \/ ItemAlias(item) = ItemInner(item).name
                           THEN "direct" ELSE "rename")
                    /\ Target(rec) = (IF ItemAlias(item) # "" THEN ItemAlias(item)
                                      ELSE ItemInner(item).name)

\* a column selected under an alias equal to its own name
C4_Witness ==
    /\ LineageDone
    /\ \E i \in DOMAIN lineage.value :
          /\ ItemInner(SelectItems(stmt.tree)[i]).cls = "Column"
          /\ ItemAlias(SelectItems(stmt.tree)[i]) = ItemInner(SelectItems(stmt.tree)[i]).name
          /\ lineage.value[i].mapping_type = "direct"

\* C5: in every branch that collects columns (bare Column, aggregation,
\* derived) the table of a source reference is the canonical name the alias
\* map gives the column's qualifier, the qualifier itself when the map does
\* not hold it, and "unknown" when the column has no qualifier.
C5_TableResolution ==
    LineageDone =>
        \A i \in DOMAIN lineage.value :
            LET inner == ItemInner(SelectItems(stmt.tree)[i])
                rec == lineage.value[i]
                cols == find_all(inner, {"Column"})
                m == _build_alias_map(stmt.tree)
            IN  inner.cls # "Star" =>
                    /\ Len(rec.source_tables) = Len(cols)
                    /\ \A j \in DOMAIN cols :
                          /\ (cols[j].table # "" /\ cols[j].table \in DOMAIN m) =>
                                rec.source_tables[j] = m[cols[j].table]
                          /\ (cols[j].table # "" /\ cols[j].table \notin DOMAIN m) =>
                                rec.source_tables[j] = cols[j].table
                          /\ cols[j].table = "" => rec.source_tables[j] = "unknown"

\* a derived record with a qualifier the map does not hold beside one it
\* holds, and an aggregation over an unqualified column
C5_Witness ==
    /\ LineageDone
    /\ \E i \in DOMAIN lineage.value :
          /\ lineage.value[i].mapping_type = "derived"
          /\ lineage.value[i].source_tables = <<"x", "orders">>
    /\ \E i \in DOMAIN lineage.value :
          /\ lineage.value[i].mapping_type = "aggregation"
          /\ \E j \in DOMAIN lineage.value[i].source_tables :
                lineage.value[i].source_tables[j] = "unknown"

\* an item that is, or contains below its root, a function of the aggregate
\* flavor, and is no bare Column and no Star
ContainsAggregate(item) ==
    /\ ItemInner(item).cls \notin {"Star", "Column"}
    /\ \E i \in DOMAIN Subtree(ItemInner(item)) :
          Subtree(ItemInner(item))[i].flag = "aggregate"

\* C6: a select-item that is or contains an aggregate function (COUNT, SUM,
\* AVG, MIN, MAX or any function flagged aggregate) is classified
\* "aggregation", target = alias or "aggregate", sources = every Column of
\* the subtree in traversal order.
C6_AggregateClassified ==
    LineageDone =>
        \A i \in DOMAIN lineage.value :
            LET item == SelectItems(stmt.tree)[i]
                rec == lineage.value[i]
            IN  ContainsAggregate(item) =>
                    /\ rec.mapping_type = "aggregation"
                    /\ rec.target_column =
                          (IF ItemAlias(item) # "" THEN ItemAlias(item) ELSE "aggregate")
                    /\ SourcesAreColumnsBelow(rec, ItemInner(item), stmt.tree)

\* C7: a Literal item, aliased or not, is classified "constant", target =
\* alias or "constant", with no source columns and no source tables.
C7_LiteralConstant ==
    LineageDone =>
        \A i \in DOMAIN lineage.value :
            LET item == SelectItems(stmt.tree)[i]
                rec == lineage.value[i]
            IN  ItemInner(item).cls = "Literal" =>
                    /\ rec.mapping_type = "constant"
                    /\ rec.target_column =
                          (IF ItemAlias(item) # "" THEN ItemAlias(item) ELSE "constant")
                    /\ rec.source_columns = <<>>
                    /\ rec.source_tables = <<>>

\* an unaliased and an aliased literal have been classified
C7_Witness ==
    /\ LineageDone
    /\ \E i \in DOMAIN lineage.value :
          /\ SelectItems(stmt.tree)[i].cls = "Literal"
          /\ lineage.value[i].target_column = "constant"

\* C8: when the parser reports a failure no analysis is performed:
\* analyze_sql returns exactly one diagnostic, PARSE_ERROR of severity error
\* with the parser's message verbatim, check_determinism exactly one such
\* issue, extract_lineage the empty list, and none of them raises.
C8_ParseFailure ==
    ~stmt.ok =>
        /\ diagnostics # Idle =>
              /\ diagnostics.status = "returned"
              /\ Len(diagnostics.value) = 1
              /\ diagnostics.value[1].diagnostic_type = "PARSE_ERROR"
              /\ diagnostics.value[1].severity = "error"
              /\ diagnostics.value[1].message = stmt.error.args[1]
        /\ issues # Idle =>
              /\ issues.status = "returned"
              /\ Len(issues.value) = 1
              /\ issues.value[1].issue_type = "PARSE_ERROR"
              /\ issues.value[1].severity = "error"
              /\ issues.value[1].message = stmt.error.args[1]
        /\ lineage # Idle => lineage = Returned(<<>>)

\* the three analyses have run on a statement the tokenizer rejected
C8_Witness ==
    /\ ~stmt.ok
    /\ stmt.error.cls = "TokenError"
    /\ lineage # Idle
    /\ diagnostics # Idle
    /\ issues # Idle

\* the findings of the checks that did not fault, in evaluation order
RECURSIVE FindingsOfSound(_)
FindingsOfSound(outcomes) ==
    IF outcomes = <<>> THEN <<>>
    ELSE (IF Head(outcomes).status = "returned" THEN Head(outcomes).value ELSE <<>>)
         \o FindingsOfSound(Tail(outcomes))

\* C9: if one of the 15 checks faults while analyze_sql runs on a parsed
\* tree, that check contributes no finding, every other check still
\* contributes its findings, and analyze_sql returns the list: the fault
\* never leaves analyze_sql.
C9_RuleIsolation ==
    (stmt.ok /\ diagnostics # Idle) =>
        /\ diagnostics.status = "returned"
        /\ diagnostics.value = FindingsOfSound(Checks(stmt.tree))

OfType(diags, type) ==
    LET Is(d) == d.diagnostic_type = type
    IN  SelectSeq(diags, Is)

AnalysisDone == stmt.ok /\ diagnostics.status = "returned"

\* a Select whose list holds an item with an aggregate function in it and a
\* bare column, aliased or not, and that has no GROUP BY
MixesWithoutGroupBy(select) ==
    LET es == arglist(select, "expressions")
    IN  /\ \E i \in DOMAIN es : HasFlag(es[i], "aggregate")
        /\ \E i \in DOMAIN es : ItemInner(es[i]).cls = "Column"
        /\ arg(select, "group") = None

\* C11: analyze_sql returns exactly one MISSING_GROUP_BY error for each
\* Select whose list mixes an aggregate-containing item with a bare-column
\* item and that has no GROUP BY, and none for any other Select.
C11_MissingGroupBy ==
    AnalysisDone =>
        /\ Len(OfType(diagnostics.value, "MISSING_GROUP_BY"))
              = Len(SelectSeq(find_all(stmt.tree, {"Select"}), MixesWithoutGroupBy))
        /\ \A i \in DOMAIN diagnostics.value :
              diagnostics.value[i].diagnostic_type = "MISSING_GROUP_BY" =>
                  diagnostics.value[i].severity = "error"

\* C12: a statement whose FROM lists two or more tables separated by
\* commas, without JOIN keyword, gets exactly one IMPLICIT_JOIN warning from
\* analyze_sql; one that joins the same tables with explicit JOINs gets none.
C12_ImplicitJoin ==
    AnalysisDone =>
        /\ stmt.tree \in CommaJoinStatements =>
              /\ Len(OfType(diagnostics.value, "IMPLICIT_JOIN")) = 1
              /\ OfType(diagnostics.value, "IMPLICIT_JOIN")[1].severity = "warning"
        /\ stmt.tree \in ExplicitJoinStatements =>
              OfType(diagnostics.value, "IMPLICIT_JOIN") = <<>>

SetOperations == {"Union", "Except"}

\* the number of select-items of one side of a set operation: those of the
\* side's Select, of its leftmost Select if the side is a set operation
\* itself, zero if it has none
RECURSIVE SideCount(_)
SideCount(side) ==
    IF side.cls = "Select" THEN Len(arglist(side, "expressions"))
    ELSE IF side.cls \in SetOperations THEN SideCount(arg(side, "this"))
    ELSE 0

CountsMismatch(op) ==
    /\ SideCount(arg(op, "this")) # SideCount(arg(op, "expression"))
    /\ SideCount(arg(op, "this")) > 0
    /\ SideCount(arg(op, "expression")) > 0

\* C13: analyze_sql returns exactly one UNION_COLUMN_MISMATCH error for each
\* set operation whose two sides have unequal, non-zero select-list counts,
\* and none for a set operation with equal counts or a side of count zero.
C13_UnionColumnMismatch ==
    AnalysisDone =>
        /\ Len(OfType(diagnostics.value, "UNION_COLUMN_MISMATCH"))
              = Len(SelectSeq(find_all(stmt.tree, SetOperations), CountsMismatch))
        /\ \A i \in DOMAIN diagnostics.value :
              diagnostics.value[i].diagnostic_type = "UNION_COLUMN_MISMATCH" =>
                  diagnostics.value[i].severity = "error"

\* the issues of some types among those check_determinism returned
IssuesOfTypes(iss, types) ==
    LET Is(d) == d.issue_type \in types
    IN  SelectSeq(iss, Is)

DeterminismDone == stmt.ok /\ issues.status = "returned"

\* the name of the function a window is over, as the statement writes it
WindowFunction(window) ==
    LET f == arg(window, "this")
    IN  IF f.cls = "IgnoreNulls" THEN arg(f, "this").name ELSE f.name

\* the windows over a ranking or navigation function, without and with
\* ORDER BY
UnorderedWindows(tree) ==
    LET Is(w) == /\ WindowFunction(w) \in ALL_ORDERED_WINDOW_FUNCTIONS
                 /\ arg(w, "order") = None
    IN  SelectSeq(find_all(tree, {"Window"}), Is)

NoOrderType(name) ==
    IF name \in RANKING_FUNCTIONS THEN "WINDOW_NO_ORDER"
    ELSE IF name \in {"FIRST_VALUE", "LAST_VALUE"} THEN "FIRST_LAST_NO_ORDER"
    ELSE "LAG_LEAD_NO_ORDER"

NoOrderTypes == {"WINDOW_NO_ORDER", "FIRST_LAST_NO_ORDER", "LAG_LEAD_NO_ORDER"}

\* C14: for each Window over a ranking or navigation function without
\* ORDER BY check_determinism returns exactly one issue, of severity error,
\* with tie-breaker columns, of type WINDOW_NO_ORDER for ROW_NUMBER, RANK,
\* DENSE_RANK and NTILE, FIRST_LAST_NO_ORDER for FIRST_VALUE and LAST_VALUE,
\* LAG_LEAD_NO_ORDER for LAG, LEAD and NTH_VALUE; a Window over a function
\* of neither set gets none.
C14_WindowWithoutOrder ==
    DeterminismDone =>
        LET found == IssuesOfTypes(issues.value, NoOrderTypes)
            windows == UnorderedWindows(stmt.tree)
        IN  /\ Len(found) = Len(windows)
            /\ \A i \in DOMAIN found :
                  /\ found[i].issue_type = NoOrderType(WindowFunction(windows[i]))
                  /\ found[i].severity = "error"
                  /\ found[i].tie_breaker_columns # <<>>

OrderedWindows(tree, names) ==
    LET Is(w) == /\ WindowFunction(w) \in names
                 /\ arg(w, "order") # None
    IN  SelectSeq(find_all(tree, {"Window"}), Is)

\* C15: for each Window that has an ORDER BY, a ranking function gets
\* exactly one WINDOW_NON_UNIQUE_ORDER warning whatever the ORDER BY lists,
\* and a navigation function gets no issue.
C15_WindowWithOrder ==
    DeterminismDone =>
        LET found == IssuesOfTypes(issues.value, {"WINDOW_NON_UNIQUE_ORDER"})
            windows == OrderedWindows(stmt.tree, RANKING_FUNCTIONS)
        IN  /\ Len(found) = Len(windows)
            /\ \A i \in DOMAIN found :
                  /\ found[i].severity = "warning"
                  /\ found[i].location = <<WindowFunction(windows[i]), " window function">>
            /\ (\A i \in DOMAIN find_all(stmt.tree, {"Window"}) :
                   LET w == find_all(stmt.tree, {"Window"})[i]
                   IN  /\ WindowFunction(w) \in NAVIGATION_FUNCTIONS
                       /\ arg(w, "order") # None)
                => IssuesOfTypes(issues.value,
                                 NoOrderTypes \cup {"WINDOW_NON_UNIQUE_ORDER"}) = <<>>

LimitWithoutOrder(select) ==
    arg(select, "limit") # None /\ arg(select, "order") = None

\* the Selects at the top level of a statement
TopLevelSelects(tree) == IF tree.cls = "Select" THEN <<tree>> ELSE <<>>

LimitIssues == IssuesOfTypes(issues.value, {"LIMIT_NO_ORDER"})

\* every LIMIT_NO_ORDER issue is an error without DQ check
LimitIssuesAreErrors ==
    \A i \in DOMAIN LimitIssues :
        /\ LimitIssues[i].severity = "error"
        /\ LimitIssues[i].dq_check_sql = PyNone

\* C16 as claimed: check_determinism returns one LIMIT_NO_ORDER error,
\* without DQ check, for each top-level Select with a LIMIT and no ORDER BY
\* and no other, so a statement of one such top-level Select gets exactly
\* one.
C16_LimitTopLevel ==
    DeterminismDone =>
        /\ Len(LimitIssues)
              = Len(SelectSeq(TopLevelSelects(stmt.tree), LimitWithoutOrder))
        /\ LimitIssuesAreErrors

\* C16 as the code has it: one LIMIT_NO_ORDER error, without DQ check, for
\* each Select of the statement, at whatever depth, that has a LIMIT and no
\* ORDER BY, and none for a Select without LIMIT or with ORDER BY.
C16_LimitEverySelect ==
    DeterminismDone =>
        /\ Len(LimitIssues)
              = Len(SelectSeq(find_all(stmt.tree, {"Select"}), LimitWithoutOrder))
        /\ LimitIssuesAreErrors

\* a statement whose top-level Select and whose subquery both have a LIMIT
\* and no ORDER BY has been analysed
C16_Witness ==
    /\ DeterminismDone
    /\ SelectSeq(TopLevelSelects(stmt.tree), LimitWithoutOrder) # <<>>
    /\ Len(LimitIssues) = 2

\* the canonical name of a function call
CalledName(f) == IF f.cls = "Anonymous" THEN NameUpper(f.name) ELSE f.name

\* the calls of the statement, each with its canonical name
CalledNames(tree) ==
    LET calls_ == SelectSeq(Subtree(tree), IsFunc)
    IN  [i \in DOMAIN calls_ |-> CalledName(calls_[i])]

Range(seq) == {seq[i] : i \in DOMAIN seq}

VolatileSeverity(n) ==
    IF n \in {"RANDOM", "RAND"} THEN "error"
    ELSE IF n \in {"UUID", "GEN_RANDOM_UUID", "NEWID", "UUID_GENERATE_V4"} THEN "warning"
    ELSE "info"

\* C17: in one result of check_determinism every volatile function name
\* the statement calls has exactly one VOLATILE_FUNCTION issue, however
\* often it is called, of severity error for RANDOM and RAND, warning for
\* the UUID family and info for the current-time family; a name that is not
\* called, and a function outside the volatile set, has none.
C17_VolatileDeduplicated ==
    DeterminismDone =>
        LET found == IssuesOfTypes(issues.value, {"VOLATILE_FUNCTION"})
            called == Range(CalledNames(stmt.tree)) \cap VOLATILE_FUNCTIONS
        IN  /\ Len(found) = Cardinality(called)
            /\ \A n \in called :
                  \E i \in DOMAIN found : found[i].location = <<n, "() function call">>
            /\ \A i \in DOMAIN found :
                  /\ found[i].location[1] \in called
                  /\ found[i].severity = VolatileSeverity(found[i].location[1])

\* a statement that calls one volatile function three times, another one
\* once and a function that is not volatile has been analysed
C17_Witness ==
    /\ DeterminismDone
    /\ LET names == CalledNames(stmt.tree)
       IN  /\ \E n \in VOLATILE_FUNCTIONS :
                 Cardinality({i \in DOMAIN names : names[i] = n}) >= 3
           /\ Range(names) \ VOLATILE_FUNCTIONS # {}
    /\ Len(IssuesOfTypes(issues.value, {"VOLATILE_FUNCTION"})) = 2
    /\ \E i \in DOMAIN issues.value : issues.value[i].severity = "warning"
    /\ \E i \in DOMAIN issues.value : issues.value[i].severity = "error"

\* the place of the first pattern a column name matches, 0 if it matches
\* none
FirstPattern(col) ==
    IF \E i \in DOMAIN TIE_BREAKER_PATTERNS : Matches(TIE_BREAKER_PATTERNS[i], col)
    THEN CHOOSE i \in DOMAIN TIE_BREAKER_PATTERNS :
            /\ Matches(TIE_BREAKER_PATTERNS[i], col)
            /\ \A j \in 1..(i - 1) : ~Matches(TIE_BREAKER_PATTERNS[j], col)
    ELSE 0

\* the first place of a column name in the input
FirstPlace(col) == CHOOSE i \in DOMAIN column_names :
                      /\ column_names[i] = col
                      /\ \A j \in 1..(i - 1) : column_names[j] # col

\* C18: suggest_tie_breakers returns the candidates that match a pattern,
\* each once, in pattern-priority order and not in input order: a candidate
\* comes before another when the first pattern it matches is earlier in the
\* list, candidates of one pattern keep their input order, a candidate that
\* matches no pattern is left out; [customer_name, order_id, created_at]
\* gives [created_at, order_id].
C18_TieBreakerPriority ==
    suggestions.status = "returned" =>
        LET result == suggestions.value
        IN  /\ Range(result) = {c \in Range(column_names) : FirstPattern(c) > 0}
            /\ \A i, j \in DOMAIN result : i < j =>
                  \/ FirstPattern(result[i]) < FirstPattern(result[j])
                  \/ /\ FirstPattern(result[i]) = FirstPattern(result[j])
                     /\ FirstPlace(result[i]) < FirstPlace(result[j])
            /\ column_names = <<"customer_name", "order_id", "created_at">>
                  => result = <<"created_at", "order_id">>

\* tie-breakers have been suggested among three names of which the last
\* has the highest priority and one matches no pattern
C18_Witness ==
    /\ suggestions.status = "returned"
    /\ Len(column_names) = 3
    /\ Len(suggestions.value) = 2
    /\ suggestions.value[1] = column_names[3]
    /\ \E i \in DOMAIN column_names : FirstPattern(column_names[i]) = 0

\* the place of a diagnostic type in the fixed order of the rules
RuleOrder(type) == CHOOSE k \in DOMAIN get_all_check_types : get_all_check_types[k] = type

\* C19: the list analyze_sql returns is in rule-evaluation order: every
\* finding carries one of the 15 codes, the findings of a rule all carry its
\* code, a finding of an earlier rule never follows a finding of a later
\* one, and the list is the concatenation of the findings of the 15 rules
\* in the fixed order.
C19_RuleOrder ==
    AnalysisDone =>
        LET ds == diagnostics.value
        IN  /\ \A i \in DOMAIN ds : ds[i].diagnostic_type \in Range(get_all_check_types)
            /\ \A i, j \in DOMAIN ds : i < j =>
                  RuleOrder(ds[i].diagnostic_type) <= RuleOrder(ds[j].diagnostic_type)
            /\ ds = Flatten([k \in DOMAIN get_all_check_types |->
                                OfType(ds, get_all_check_types[k])])

\* analyze_sql has returned findings of at least five rules
C19_Witness ==
    /\ AnalysisDone
    /\ Cardinality({diagnostics.value[i].diagnostic_type : i \in DOMAIN diagnostics.value}) >= 5

\* the nodes of a statement in the order its text writes them: a node
\* before its children, the WITH clause of a Select before its other
\* children, these in argument order
RECURSIVE InDocumentOrder(_)
InDocumentOrder(n) ==
    LET IsWith(c) == c.key = "with"
        IsNotWith(c) == c.key # "with"
        children == SelectSeq(n.args, IsWith) \o SelectSeq(n.args, IsNotWith)
    IN  <<n>> \o Flatten([i \in DOMAIN children |-> InDocumentOrder(children[i])])

\* the alias map of the Table nodes taken in document order, a later
\* declaration of a key overwriting an earlier one
RECURSIVE MapInOrder(_, _)
MapInOrder(tables, m) ==
    IF tables = <<>> THEN m
    ELSE LET t == Head(tables)
             k == IF t.alias # "" THEN t.alias ELSE t.name
         IN  MapInOrder(Tail(tables), [x \in DOMAIN m \ {k} |-> m[x]] @@ (k :> t.name))

DocumentAliasMap(tree) ==
    LET IsTable(n) == n.cls = "Table"
    IN  MapInOrder(SelectSeq(InDocumentOrder(tree), IsTable), <<>>)

\* C20: the alias map maps alias to name for an aliased Table and name to
\* name for an unaliased one; of several Table nodes declaring one key the
\* last in document order gives the name the map holds, and the qualifier
\* of a selected column resolves to that name.
C20_AliasMapLastWins ==
    LineageDone =>
        /\ _build_alias_map(stmt.tree) = DocumentAliasMap(stmt.tree)
        /\ \A i \in DOMAIN lineage.value :
              LET inner == ItemInner(SelectItems(stmt.tree)[i])
              IN  (/\ inner.cls = "Column" /\ inner.table # ""
                   /\ inner.table \in DOMAIN DocumentAliasMap(stmt.tree))
                      => lineage.value[i].source_tables
                            = <<DocumentAliasMap(stmt.tree)[inner.table]>>

\* the names the CTE-definition nodes of a statement define
CteNames(tree) ==
    LET ctes == find_all(tree, {"CTE"})
    IN  {ctes[i].alias : i \in DOMAIN ctes}

\* C21: no record returned by extract_lineage lists a name defined by a
\* CTE of the statement among its source_tables.
C21_CteNamesExcluded ==
    LineageDone =>
        \A i \in DOMAIN lineage.value :
            \A j \in DOMAIN lineage.value[i].source_tables :
                lineage.value[i].source_tables[j] \notin CteNames(stmt.tree)

ItemColumns(item) == find_all(ItemInner(item), {"Column"})
ResolvedTable(col, tree) ==
    IF col.table = "" THEN "unknown"
    ELSE IF col.table \in DOMAIN _build_alias_map(tree) THEN _build_alias_map(tree)[col.table]
    ELSE col.table

\* source_columns and source_tables of a record name, position by position,
\* the Column nodes of its item and their resolved tables
AlignedWithColumns(rec, item, tree) ==
    LET cols == ItemColumns(item)
    IN  /\ Len(rec.source_columns) = Len(cols)
        /\ Len(rec.source_tables) = Len(cols)
        /\ \A j \in DOMAIN cols :
              /\ rec.source_columns[j] = cols[j].name
              /\ rec.source_tables[j] = ResolvedTable(cols[j], tree)

\* C23 (as stated): in every record source_tables and source_columns have
\* the same length, the i-th table is the resolved table of the i-th
\* column, and the lists are empty exactly for the items with no Column in
\* their subtree.
C23_SourceListsAligned ==
    LineageDone =>
        \A i \in DOMAIN lineage.value :
            LET rec == lineage.value[i]
                item == SelectItems(stmt.tree)[i]
            IN  /\ Len(rec.source_tables) = Len(rec.source_columns)
                /\ ItemColumns(item) # <<>> => AlignedWithColumns(rec, item, stmt.tree)
                /\ (rec.source_columns = <<>> /\ rec.source_tables = <<>>)
                       <=> ItemColumns(item) = <<>>

\* C23 (amended): as above, except that the record of a bare Star, which
\* has no Column in its subtree, carries the one pair "*" / "all"; the lists
\* are empty exactly for the other items with no Column in their subtree.
C23_SourceListsAlignedOrStar ==
    LineageDone =>
        \A i \in DOMAIN lineage.value :
            LET rec == lineage.value[i]
                item == SelectItems(stmt.tree)[i]
            IN  IF ItemInner(item).cls = "Star"
                THEN rec.source_columns = <<"*">> /\ rec.source_tables = <<"all">>
                ELSE AlignedWithColumns(rec, item, stmt.tree)

\* a record with two source columns that resolve to different tables, one
\* through the alias map and one by its own qualifier or to "unknown"
C23_Witness ==
    /\ LineageDone
    /\ \E i \in DOMAIN lineage.value :
          /\ Len(lineage.value[i].source_columns) = 2
          /\ Len(lineage.value[i].source_tables) = 2
          /\ lineage.value[i].source_tables[1] # lineage.value[i].source_tables[2]
          /\ "unknown" \in {lineage.value[i].source_tables[j] : j \in 1..2}

\* the JOINs of a statement, and those whose ON clause is or contains an OR
JoinsOf(tree) == find_all(tree, {"Join"})
HasOrInOn(join) ==
    /\ arg(join, "on") # None
    /\ \E i \in DOMAIN Subtree(arg(join, "on")) : Subtree(arg(join, "on"))[i].cls = "Or"

\* C24: analyze_sql reports OR_IN_JOIN once for each JOIN whose ON clause
\* is an OR or contains one, for no other JOIN, and never more often than
\* the statement has JOINs.
C24_OrInJoinOncePerJoin ==
    AnalysisDone =>
        /\ Len(OfType(diagnostics.value, "OR_IN_JOIN"))
              = Cardinality({i \in DOMAIN JoinsOf(stmt.tree) : HasOrInOn(JoinsOf(stmt.tree)[i])})
        /\ Len(OfType(diagnostics.value, "OR_IN_JOIN")) <= Len(JoinsOf(stmt.tree))

\* the name check_duplicate_column tracks for a select-item: the column
\* name of a bare Column, the alias of an aliased item, in lower case
TrackedName(item) ==
    IF item.cls = "Column" THEN lower(Chars(item.name))
    ELSE IF item.cls = "Alias" THEN lower(Chars(item.alias))
    ELSE <<>>

\* the positions of a select-list whose name appeared at an earlier position
RepeatedPositions(items) ==
    {i \in DOMAIN items :
        /\ TrackedName(items[i]) # <<>>
        /\ \E j \in 1..(i - 1) : TrackedName(items[j]) = TrackedName(items[i])}

\* the number of repeated positions over all Selects of a list
RECURSIVE RepeatsIn(_)
RepeatsIn(selects) ==
    IF selects = <<>> THEN 0
    ELSE Cardinality(RepeatedPositions(arglist(Head(selects), "expressions")))
         + RepeatsIn(Tail(selects))

\* C25: analyze_sql reports DUPLICATE_COLUMN once for each select-item
\* whose name (compared without case) appeared earlier in the same
\* select-list: k - 1 times for a name occurring k times, never for
\* distinct names, never for equal names in different Selects.
C25_DuplicateColumn ==
    AnalysisDone =>
        /\ Len(OfType(diagnostics.value, "DUPLICATE_COLUMN"))
              = RepeatsIn(find_all(stmt.tree, {"Select"}))
        /\ \A i \in DOMAIN diagnostics.value :
              diagnostics.value[i].diagnostic_type = "DUPLICATE_COLUMN" =>
                  /\ diagnostics.value[i].severity = "warning"
                  /\ \E k \in DOMAIN find_all(stmt.tree, {"Select"}) :
                        LET items == arglist(find_all(stmt.tree, {"Select"})[k], "expressions")
                        IN  \E p \in RepeatedPositions(items) :
                                diagnostics.value[i].message[2] = TrackedName(items[p])

\* one name three times in one select-list, written in two cases: two
\* warnings
C25_Witness ==
    /\ AnalysisDone
    /\ Len(OfType(diagnostics.value, "DUPLICATE_COLUMN")) = 2
    /\ LET items == SelectItems(stmt.tree)
       IN  /\ Len(items) = 3
           /\ \A p \in 1..3 : TrackedName(items[p]) = <<"i", "d">>
           /\ \E p \in 1..3 : items[p].cls = "Alias" /\ items[p].alias = "ID"

\* a JOIN with neither ON nor USING whose kind is not CROSS
Unconditioned(join) ==
    /\ arg(join, "on") = None
    /\ arglist(join, "using") = <<>>
    /\ join.flag # "CROSS"

\* C26: analyze_sql reports CARTESIAN_JOIN, as a warning, once for each
\* JOIN that has neither ON nor USING and is not a CROSS JOIN, and for no
\* JOIN with ON, with USING or of kind CROSS.
C26_CartesianJoin ==
    AnalysisDone =>
        LET unconditioned == SelectSeq(JoinsOf(stmt.tree), Unconditioned)
            found == OfType(diagnostics.value, "CARTESIAN_JOIN")
        IN  /\ Len(found) = Len(unconditioned)
            /\ \A i \in DOMAIN found :
                  /\ found[i].severity = "warning"
                  /\ found[i].message[2] = arg(unconditioned[i], "this").name

\* a statement with an unconditioned JOIN beside a JOIN with USING or a
\* CROSS JOIN: one warning, for the first
C26_Witness ==
    /\ AnalysisDone
    /\ Len(JoinsOf(stmt.tree)) = 2
    /\ Len(OfType(diagnostics.value, "CARTESIAN_JOIN")) = 1
    /\ \E i \in DOMAIN JoinsOf(stmt.tree) :
          \/ arglist(JoinsOf(stmt.tree)[i], "using") # <<>>
          \/ JoinsOf(stmt.tree)[i].flag = "CROSS" /\ arg(JoinsOf(stmt.tree)[i], "on") = None

\* a Select with DISTINCT and LIMIT and no ORDER BY
DistinctLimitWithoutOrder(select) ==
    arg(select, "distinct") # None /\ LimitWithoutOrder(select)

\* the place of an issue's check in check_determinism: the window check,
\* the LIMIT check, the volatile-function check, the DISTINCT check
CheckPlace(issue) ==
    CASE issue.issue_type = "LIMIT_NO_ORDER" -> 2
      [] issue.issue_type = "VOLATILE_FUNCTION" -> 3
      [] issue.issue_type = "DISTINCT_NO_ORDER" -> 4
      [] OTHER -> 1

\* C27: check_determinism returns one DISTINCT_NO_ORDER warning for each
\* Select with DISTINCT and LIMIT and no ORDER BY, beside the
\* LIMIT_NO_ORDER error of that Select, and none for any other Select; its
\* issues come in the order of the checks (window, LIMIT_NO_ORDER,
\* VOLATILE_FUNCTION, DISTINCT_NO_ORDER), so every LIMIT_NO_ORDER issue
\* precedes every DISTINCT_NO_ORDER issue.
C27_DistinctNoOrder ==
    DeterminismDone =>
        LET selects == find_all(stmt.tree, {"Select"})
            distinct == IssuesOfTypes(issues.value, {"DISTINCT_NO_ORDER"})
        IN  /\ Len(distinct) = Len(SelectSeq(selects, DistinctLimitWithoutOrder))
            /\ Len(LimitIssues) = Len(SelectSeq(selects, LimitWithoutOrder))
            /\ \A i \in DOMAIN distinct : distinct[i].severity = "warning"
            /\ \A i, j \in DOMAIN issues.value :
                  i < j => CheckPlace(issues.value[i]) <= CheckPlace(issues.value[j])

\* a statement for which all four checks report, with two Selects that
\* have DISTINCT and LIMIT and no ORDER BY
C27_Witness ==
    /\ DeterminismDone
    /\ {CheckPlace(issues.value[i]) : i \in DOMAIN issues.value} = 1..4
    /\ Len(IssuesOfTypes(issues.value, {"DISTINCT_NO_ORDER"})) = 2

\* C28: for every candidate list, repeated names included, the result of
\* suggest_tie_breakers has no duplicates, holds only candidates, holds
\* every candidate that matches at least one pattern, and is a fixed point:
\* suggest_tie_breakers of the result is the result.
C28_TieBreakersClosed ==
    suggestions.status = "returned" =>
        LET result == suggestions.value
        IN  /\ \A i, j \in DOMAIN result : i # j => result[i] # result[j]
            /\ Range(result) \subseteq Range(column_names)
            /\ \A k \in DOMAIN column_names :
                  (\E p \in DOMAIN TIE_BREAKER_PATTERNS :
                       Matches(TIE_BREAKER_PATTERNS[p], column_names[k]))
                      => column_names[k] \in Range(result)
            /\ suggest_tie_breakers(result) = result

\* tie-breakers have been suggested among three candidates of which the
\* first and the last are one name that matches several patterns: it is
\* suggested once, before the second candidate
C28_Witness ==
    /\ suggestions.status = "returned"
    /\ Len(suggestions.value) = 2
    /\ Len(column_names) = 3
    /\ column_names[1] = "x_source_row_id"
    /\ column_names[3] = "x_source_row_id"
    /\ suggestions.value[2] = column_names[2]

\* the entries of a lineage tree and the tree nested in an entry
TreeEntries(tree) ==
    IF "sources" \in DOMAIN tree THEN tree.sources ELSE tree.dependents
NestedTree(entry) ==
    IF "upstream" \in DOMAIN entry THEN entry.upstream ELSE entry.downstream

\* how many 'upstream' / 'downstream' entries lie inside one another on the
\* longest path of a tree
RECURSIVE Nesting(_)
Nesting(tree) ==
    LET levels == {IF NestedTree(e) = None THEN 0 ELSE 1 + Nesting(NestedTree(e)) :
                      e \in Range(TreeEntries(tree))}
    IN  IF levels = {} THEN 0 ELSE CHOOSE l \in levels : \A k \in levels : k <= l

\* C29: a query of the lineage graph terminates on every table, cyclic or
\* not: a recursive call is made only while depth > 1 and is given
\* depth - 1, so never more than max(depth, 1) calls are pending, the call
\* returns, and the tree it returns nests 'upstream' / 'downstream' entries
\* at most depth - 1 levels deep (not at all when depth <= 1).
C29_LineageTerminates ==
    /\ [](Len(frames) <= Max(request.depth, 1))
    /\ [][(frames # <<>> /\ Len(frames') > Len(frames)) =>
             /\ frames[Len(frames)].depth > 1
             /\ frames'[Len(frames')].depth = frames[Len(frames)].depth - 1]_vars
    /\ [](answer.status = "returned" =>
             Nesting(answer.value) <= Max(request.depth - 1, 0))
    /\ <>(answer.status = "returned")

\* a query to depth 2 or more has returned over tables whose mappings form
\* a cycle or hold a self-mapping, with entries nested to the full depth
C29_Witness ==
    /\ answer.status = "returned"
    /\ request.depth >= 2
    /\ Nesting(answer.value) = request.depth - 1
    /\ \E m \in conn.attribute_mapping :
          \/ m.source_entity_id = m.target_entity_id
          \/ \E n \in conn.attribute_mapping :
                /\ n.source_entity_id = m.target_entity_id
                /\ n.target_entity_id = m.source_entity_id

\* the dependents of a downstream tree at every level
RECURSIVE AllDependents(_)
AllDependents(tree) ==
    Range(tree.dependents)
    \cup UNION {AllDependents(d.downstream) :
                   d \in {e \in Range(tree.dependents) : e.downstream # None}}

\* C30: in the result of get_downstream_lineage every dependent's
\* target_entity_name is the name of the entity row whose id is its
\* target_entity_id (null without such a row), with attribute_name given
\* and without.
C30_DependentEntityName ==
    (answer.status = "returned" /\ request.fn = "get_downstream_lineage") =>
        \A d \in AllDependents(answer.value) :
            d.target_entity_name = LeftJoin(conn.entity, d.target_entity_id)

====
